---- MODULE Spec2Model ----
(***************************************************************************)
(* Quiz-generation backend (src/backend/app): the generate_quiz request    *)
(* handler with its dedup lookup, the global model-call gate, the          *)
(* generation pipeline, the quizzes table, and the read/grade handlers.    *)
(***************************************************************************)
EXTENDS Integers, Sequences, FiniteSets, TLC

(* ---------------- bounds of the model ---------------- *)
NumSlots == 2          \* generate_quiz requests that may be in flight at once
MaxRows == 2           \* rows the quizzes table may grow to in one behaviour
NumThreads == 2        \* threads calling _InMemoryStore.create at once
MaxCreates == 3        \* calls of _InMemoryStore.create in one behaviour
MaxNow == 2            \* ticks of the clock read by time.time()
MaxAnswers == 6        \* longest answers list of a grade request
MaxPasses == 2         \* normalization passes run over one object

(* ---------------- program constants ---------------- *)
LLM_CONCURRENCY == 1   \* api.py: LLM_CONCURRENCY = int(1)
BUILD_ATTEMPTS == 2    \* quiz_generator.py: stop_after_attempt(2)
QUIZ_MIN_LEN == 5      \* schemas.py: QuizPayload.quiz min_length
QUIZ_MAX_LEN == 10     \* schemas.py: QuizPayload.quiz max_length
DEFAULT_MIN_QUESTIONS == 7    \* api.py 159: req.min_questions or 7
DEFAULT_MAX_QUESTIONS == 10   \* api.py 160: max(min_questions, 10)
REQUEST_BOUND_MAX == 20       \* schemas.py 50-51: Field(ge=1, le=20)
MAX_PAGE_SIZE == 50    \* api.py 210: min(page_size, 50)
MIN_BODY_LEN == 200           \* src/app/api.py 45: len(text) < 200

Slots == 1..NumSlots

(* request inputs: two allowed article URLs and one outside the pattern *)
URL_A == "https://en.wikipedia.org/wiki/A"
URL_B == "https://en.wikipedia.org/wiki/B"
URL_X == "https://example.org/wiki/A"
URLs == {URL_A, URL_B, URL_X}

(* scraper.py WIKI_ALLOWED: ^https://([a-z]+)\.wikipedia\.org/wiki/.+ *)
WIKI_ALLOWED == {URL_A, URL_B}

(* article bodies the origin may serve for a URL (the page can be edited) *)
Texts == {"body v1", "body v2"}

(* an article whose extracted body is one character short of 200 *)
ShortText == "stub body"
ShortTexts == {ShortText}

(* len(text) of the article bodies *)
BodyLen(text) == IF text \in ShortTexts THEN 199 ELSE 200

(* utils/hash.py sha256_hex: a digest of the text; distinct inputs of the  *)
(* model get distinct digests, and the digest is not the text itself.      *)
sha256_hex(text) == <<"sha256", text>>

None == "None"

(* what chain.invoke may hand back: a parsed object whose shape is right,  *)
(* drifted (repairable by normalization) or wrong, with n quiz items.      *)
Shapes == {"ok", "drift", "bad"}
QuizLens == {4, 7, 9}

(* the number of options of the quiz items (of the item that has the       *)
(* fewest), and the difficulty the items carry                             *)
OptionCounts == {3, 4}
Difficulties == {"easy", " Easy ", "extreme"}

ModelOutputs ==
    [shape : Shapes, n : QuizLens, options : OptionCounts, difficulty : Difficulties]

VARIABLES
    quizzes,    \* the quizzes table: sequence of rows in insertion order
    llm_sem,    \* value of the asyncio.Semaphore _llm_sem
    req,        \* per generate_quiz call in flight: position and locals
    served,     \* ids already returned to a force=false generate_quiz call
    pl,         \* one execution of generate_quiz_payload: position and locals
    rd,         \* the response of the latest get_quiz, history or grade call
    gr,         \* one execution of grade_quiz on a stored quiz: position and locals
    fb,         \* one execution of generate_rule_based_quiz: position and locals
    nz,         \* a provider object under the normalization passes: the passes run and their results
    gm,         \* one call of build_chain with its runs of _get_model: position and locals
    store,      \* the fields of the _InMemoryStore object
    thr,        \* per thread inside _InMemoryStore.create: position and locals
    sret,       \* what the latest call of a store method returned
    now         \* the clock read by time.time()

apiVars == <<quizzes, llm_sem, req, served>>
storeVars == <<store, thr, sret, now>>
vars == <<quizzes, llm_sem, req, served, pl, rd, gr, fb, nz, gm, store, thr, sret, now>>

NoOutput == [shape |-> "none", n |-> 0, options |-> 0, difficulty |-> "none"]

(* min_questions / max_questions left out of the request body (None) *)
NoBound == 0

IdleReq ==
    [pc |-> "idle", url |-> None, force |-> FALSE, text |-> None,
     raw |-> NoOutput, holds |-> FALSE, status |-> 0, id |-> 0, via |-> "none",
     min_questions |-> NoBound, max_questions |-> NoBound]

(* generate_quiz_payload not entered yet *)
IdlePipeline ==
    [variant |-> "none", pc |-> "idle", attempts |-> 0, invocations |-> 0,
     repairs |-> 0, first |-> NoOutput, obj |-> NoOutput, error_text |-> <<>>, err |-> None,
     signal |-> None, hint |-> {}, retry_after |-> {}]

NoRead == [op |-> "none", status |-> 0, id |-> 0, full_quiz_data |-> NoOutput,
           items |-> <<>>, total |-> 0, detail |-> "", skip |-> 0, limit |-> 0]

(* grade_quiz not entered yet *)
IdleGrade ==
    [pc |-> "idle", quiz |-> <<>>, answers |-> <<>>, idx |-> 0, correct_total |-> 0,
     results |-> <<>>, status |-> 0, total |-> 0, correct |-> 0, score |-> 0]

(* an object before any normalization pass: Absent marks a key the dict   *)
(* lacks (or holds None for), as dict.get gives None for both             *)
AbsentValue == [kind |-> "absent", items |-> <<>>]
NoObject ==
    [title |-> "", key_entities |-> AbsentValue, quiz |-> {}, sections |-> {},
     related_topics |-> {}]
IdleNormalize == [pc |-> "idle", input |-> NoObject, obj |-> NoObject,
                  trace |-> <<>>, outs |-> <<>>]

(* build_chain not called yet *)
IdleSelection ==
    [pc |-> "idle", primary |-> "", has_key |-> FALSE, attempt |-> 0, order |-> <<>>,
     i |-> 0, tried |-> <<>>, used |-> "", err |-> "", cause |-> ""]

(* generate_rule_based_quiz not entered yet *)
IdleFallback ==
    [pc |-> "idle", clean_title |-> "", body_chars |-> 0, sentences |-> <<>>,
     entities |-> <<>>, unused_entities |-> <<>>, i |-> 0, todo |-> <<>>,
     quiz_items |-> <<>>, min_questions |-> 0, max_questions |-> 0]

Threads == 1..NumThreads

(* payloads handed to the store, and the ttl_seconds arguments: 0 stands   *)
(* for both None and 0, which storage.py 29 and 49 treat alike             *)
Values == {"v1", "v2"}
TTLs == {0, 1}

IdleThread == [pc |-> "idle", _id |-> 0, value |-> None, ttl |-> 0]

NoReturn == [op |-> "none", id |-> 0, found |-> FALSE, value |-> None, ids |-> <<>>]

(* storage.py 17-21: _InMemoryStore.__init__; `issued` lists the ids that  *)
(* create has returned, in the order of the returns                        *)
NewStore ==
    [_data |-> <<>>, _expiry |-> <<>>, _lock |-> 0, _next_id |-> 1, issued |-> <<>>]

Init ==
    /\ quizzes = <<>>
    /\ llm_sem = LLM_CONCURRENCY
    /\ req = [s \in Slots |-> IdleReq]
    /\ served = {}
    /\ pl = IdlePipeline
    /\ rd = NoRead
    /\ gr = IdleGrade
    /\ fb = IdleFallback
    /\ nz = IdleNormalize
    /\ gm = IdleSelection
    /\ store = NewStore
    /\ thr = [t \in Threads |-> IdleThread]
    /\ sret = NoReturn
    /\ now = 0

(* ---------------- the quizzes table (db/crud.py, db/models.py) -------- *)
Ids(db) == {db[i].id : i \in DOMAIN db}

MaxOf(S) == IF S = {} THEN 0 ELSE CHOOSE m \in S : \A x \in S : x <= m

(* models.py: id is the integer primary key, assigned by the database on  *)
(* commit; the table has no delete path, so it is the next key.           *)
NextId(db) == MaxOf(Ids(db)) + 1

(* crud.create_quiz: one row added and committed *)
(* a create that writes over the row of the same URL when there is one *)
create_quiz_Upsert(db, url, scraped_content, content_hash, full_quiz_data) ==
    IF \E i \in DOMAIN db : db[i].url = url
    THEN LET i == CHOOSE k \in DOMAIN db : db[k].url = url IN
         [db EXCEPT ![i].scraped_content = scraped_content,
                    ![i].content_hash = content_hash,
                    ![i].full_quiz_data = full_quiz_data]
    ELSE Append(db, [id |-> NextId(db), url |-> url, url_hash |-> sha256_hex(url),
                     scraped_content |-> scraped_content, content_hash |-> content_hash,
                     full_quiz_data |-> full_quiz_data])

create_quiz(db, url, scraped_content, content_hash, full_quiz_data) ==
    Append(db, [id |-> NextId(db), url |-> url, url_hash |-> sha256_hex(url),
                scraped_content |-> scraped_content,
                content_hash |-> content_hash,
                full_quiz_data |-> full_quiz_data])

(* a select that filters on the URL fingerprint alone *)
MatchingRows_UrlOnly(db, url_hash, content_hash) ==
    {i \in DOMAIN db : db[i].url_hash = url_hash}

(* the rows selected by crud.get_quiz_by_urlhash_and_contenthash *)
MatchingRows(db, url_hash, content_hash) ==
    {i \in DOMAIN db : db[i].url_hash = url_hash /\ db[i].content_hash = content_hash}

(* a lookup that never finds a row *)
lookup_AlwaysMiss(db, url_hash, content_hash) == [kind |-> "miss", id |-> 0]

(* scalar_one_or_none(): no row -> None, one row -> that row, several     *)
(* rows -> MultipleResultsFound is raised                                 *)
get_quiz_by_urlhash_and_contenthash(db, url_hash, content_hash) ==
    LET m == MatchingRows(db, url_hash, content_hash) IN
    IF m = {} THEN [kind |-> "miss", id |-> 0]
    ELSE IF Cardinality(m) = 1
         THEN [kind |-> "hit", id |-> db[CHOOSE i \in m : TRUE].id]
         ELSE [kind |-> "error", id |-> 0]

get_quiz_by_id_Nearest(db, quiz_id) ==
    IF \E i \in 1..Len(db) : db[i].id = quiz_id
    THEN CHOOSE i \in 1..Len(db) : db[i].id = quiz_id
    ELSE Len(db)

(* crud.get_quiz_by_id: the row index of the id, 0 when absent *)
get_quiz_by_id(db, quiz_id) ==
    IF \E i \in DOMAIN db : db[i].id = quiz_id
    THEN CHOOSE i \in DOMAIN db : db[i].id = quiz_id
    ELSE 0

(* the row of the table with this id *)
RowOfId(id) == quizzes[CHOOSE i \in DOMAIN quizzes : quizzes[i].id = id]

(* ---------------- schema checks and normalization --------------------- *)
(* quiz_generator._normalize_result and api._normalize_payload on the      *)
(* abstract shape: a drifted object is coerced into shape, a wrong one     *)
(* stays wrong                                                            *)
NormalizeShape(shape) == IF shape = "drift" THEN "ok" ELSE shape

(* str.strip().lower() on the difficulty strings of the model *)
StripLower(d) == IF d = " Easy " THEN "easy" ELSE d

(* quiz_generator.py 134-137 and api.py 92-94 rewrite each difficulty as   *)
(* its stripped lower-case form                                            *)
_normalize_result(obj) ==
    [obj EXCEPT !.shape = NormalizeShape(obj.shape),
                !.difficulty = StripLower(obj.difficulty)]

_normalize_payload(obj) ==
    [obj EXCEPT !.shape = NormalizeShape(obj.shape),
                !.difficulty = StripLower(obj.difficulty)]

DifficultyLevels == {"easy", "medium", "hard"}

(* coerce_difficulty_lower (quiz_generator.py 24-30, schemas.py 12-18):    *)
(* the validator accepts a difficulty whose stripped lower-case form is a  *)
(* level                                                                   *)
DifficultyAccepted(d) == StripLower(d) \in DifficultyLevels

(* QuizOutputModel.model_validate: required fields, 4 options per item,    *)
(* difficulty; no bound on the quiz length                                 *)
QuizOutputModelValid(obj) ==
    /\ obj.shape = "ok"
    /\ obj.options = 4
    /\ DifficultyAccepted(obj.difficulty)

(* a final gate that lets every payload through *)
QuizPayloadValid_Skip(obj) == TRUE

(* schemas.QuizPayload.model_validate: required fields, 4 options per      *)
(* item, difficulty, and 5..10 quiz items                                  *)
QuizPayloadValid(obj) ==
    /\ obj.shape = "ok"
    /\ obj.options = 4
    /\ DifficultyAccepted(obj.difficulty)
    /\ obj.n >= QUIZ_MIN_LEN
    /\ obj.n <= QUIZ_MAX_LEN

(* ---------------- generate_quiz_payload, step by step ----------------- *)
(* Two versions of the pipeline are in the repository:                    *)
(*   "backend": src/backend/app/services/quiz_generator.py 209-255        *)
(*   "app":     src/app/services/quiz_generator.py 176-197                *)
Variants == {"backend", "app"}

(* exceptions chain.invoke may raise *)
InvokeExceptions == {"ResourceExhausted", "ValidationError", "OutputParserException"}

(* the text of the pydantic ValidationError for a rejected output *)
ValidationErrorText(out) == <<"ValidationError", out.shape, out.n>>

(* src/app 129-148: the chain ends in model.with_structured_output(        *)
(* QuizOutputModel), so invoke validates what the model sent and raises    *)
(* ValidationError when it does not fit.                                   *)
(* src/backend 144-162: the chain ends in JsonOutputParser, which hands    *)
(* back the parsed object unvalidated.                                     *)
InvokeValidates(variant) == variant = "app"

(* a handler that repairs again when the repaired output is rejected too *)
AfterValidationError_Loop(variant, stage) == "repair"

(* where a ValidationError raised at `stage` takes the pipeline.          *)
(* src/app 187-191: raised by the first invoke, it starts the repair; the *)
(* repair runs inside the except clause, so raised there it propagates.   *)
(* src/backend 242-249: the repair is commented out, the error is raised  *)
(* again (248-249); line 254 is outside the try.                          *)
AfterValidationError(variant, stage) ==
    IF variant = "app" /\ stage = "invoke" THEN "repair" ELSE "failed"

(* src/backend 228: the name ResourceExhausted is not bound in the module *)
(* (it is not imported), so evaluating this except clause for an exception *)
(* of chain.invoke raises NameError; src/app has no such clause and the    *)
(* exception propagates as it is.                                          *)
RaisedByInvoke(variant, exc) == IF variant = "backend" THEN "NameError" ELSE exc

(* the retry_delay seconds a ResourceExhausted message of the provider may *)
(* carry: none, or one number of seconds                                   *)
RetryHints == {{}, {30}}

(* src/backend 10-13, 229-233: the retry_after of the RateLimitError that  *)
(* the handler builds from the message. The handler body is entered only   *)
(* when its except clause matches, which RaisedByInvoke decides: when the  *)
(* failure is not a RateLimitError, no retry_after exists.                 *)
RetryAfterOf(err, hint) == IF err = "RateLimitError" THEN hint ELSE {}

PFail(kind) == [pl EXCEPT !.pc = "failed", !.err = kind]

(* generate_quiz_payload is called *)
PStart(variant) ==
    /\ pl.pc = "idle"
    /\ pl' = [pl EXCEPT !.variant = variant, !.pc = "build_chain"]
    /\ UNCHANGED <<gm, nz, fb, apiVars, rd, gr, storeVars>>

(* a retry policy that allows one attempt more *)
PBuildChain_ThreeTries(ok) ==
    /\ pl.pc = "build_chain"
    /\ pl' = IF ok THEN [pl EXCEPT !.attempts = @ + 1, !.pc = "invoke"]
             ELSE IF pl.attempts + 1 < BUILD_ATTEMPTS + 1
             THEN [pl EXCEPT !.attempts = @ + 1]
             ELSE [PFail("RetryError") EXCEPT !.attempts = @ + 1]
    /\ UNCHANGED <<gm, nz, fb, apiVars, rd, gr, storeVars>>

(* build_chain under @retry(stop=stop_after_attempt(2)): _get_model       *)
(* initializes a model or raises                                          *)
PBuildChain(ok) ==
    /\ pl.pc = "build_chain"
    /\ pl' = IF ok THEN [pl EXCEPT !.attempts = @ + 1, !.pc = "invoke"]
             ELSE IF pl.attempts + 1 < BUILD_ATTEMPTS
             THEN [pl EXCEPT !.attempts = @ + 1]
             ELSE [PFail("RetryError") EXCEPT !.attempts = @ + 1]
    /\ UNCHANGED <<gm, nz, fb, apiVars, rd, gr, storeVars>>

(* chain.invoke answers with the object the model sent *)
PInvoke(out) ==
    /\ pl.pc = "invoke"
    /\ pl' = IF InvokeValidates(pl.variant) /\ ~QuizOutputModelValid(out)
             THEN LET to == AfterValidationError(pl.variant, "invoke") IN
                  [pl EXCEPT !.invocations = @ + 1, !.first = out, !.pc = to,
                             !.error_text = ValidationErrorText(out),
                             !.err = IF to = "failed" THEN "ValidationError" ELSE @]
             ELSE [pl EXCEPT !.invocations = @ + 1, !.first = out, !.obj = out,
                             !.pc = "normalize"]
    /\ UNCHANGED <<gm, nz, fb, apiVars, rd, gr, storeVars>>

(* chain.invoke raises exc, whose message carries the retry hint; a       *)
(* ValidationError of the validating chain is the rejected output of      *)
(* PInvoke                                                                *)
PInvokeRaises(exc, hint) ==
    /\ pl.pc = "invoke"
    /\ ~(InvokeValidates(pl.variant) /\ exc = "ValidationError")
    /\ LET err == RaisedByInvoke(pl.variant, exc) IN
       pl' = [PFail(err) EXCEPT !.invocations = @ + 1, !.signal = exc, !.hint = hint,
                                !.retry_after = RetryAfterOf(err, hint)]
    /\ UNCHANGED <<gm, nz, fb, apiVars, rd, gr, storeVars>>

(* src/app 190: _get_model raises inside the except clause *)
PRepairGetModelFails ==
    /\ pl.pc = "repair"
    /\ pl' = [PFail("RuntimeError") EXCEPT !.repairs = @ + 1]
    /\ UNCHANGED <<gm, nz, fb, apiVars, rd, gr, storeVars>>

(* src/app 191, 150-174: _repair_with_error invokes the model with the    *)
(* error text in the prompt, and the model answers                        *)
PRepair(out) ==
    /\ pl.pc = "repair"
    /\ pl' = IF QuizOutputModelValid(out)
             THEN [pl EXCEPT !.invocations = @ + 1, !.repairs = @ + 1, !.obj = out,
                             !.pc = "normalize"]
             ELSE LET to == AfterValidationError(pl.variant, "repair") IN
                  [pl EXCEPT !.invocations = @ + 1, !.repairs = @ + 1, !.pc = to,
                             !.err = IF to = "failed" THEN "ValidationError" ELSE @]
    /\ UNCHANGED <<gm, nz, fb, apiVars, rd, gr, storeVars>>

(* src/app 166-173: the repair invoke raises *)
PRepairRaises(exc) ==
    /\ pl.pc = "repair"
    /\ pl' = [PFail(exc) EXCEPT !.invocations = @ + 1, !.repairs = @ + 1]
    /\ UNCHANGED <<gm, nz, fb, apiVars, rd, gr, storeVars>>

(* _normalize_result, then QuizOutputModel.model_validate (src/backend    *)
(* 253-255, src/app 194-197); a ValidationError here propagates           *)
PNormalizeValidate ==
    /\ pl.pc = "normalize"
    /\ LET obj == _normalize_result(pl.obj) IN
       pl' = IF QuizOutputModelValid(obj)
             THEN [pl EXCEPT !.obj = obj, !.pc = "returned"]
             ELSE [pl EXCEPT !.obj = obj, !.pc = "failed", !.err = "ValidationError",
                             !.error_text = ValidationErrorText(obj)]
    /\ UNCHANGED <<gm, nz, fb, apiVars, rd, gr, storeVars>>

NextPipeline ==
    \/ \E variant \in Variants : PStart(variant)
    \/ \E ok \in BOOLEAN : PBuildChain(ok)
    \/ \E out \in ModelOutputs : PInvoke(out)
    \/ \E exc \in InvokeExceptions, hint \in RetryHints : PInvokeRaises(exc, hint)
    \/ \E out \in ModelOutputs : PRepair(out)
    \/ PRepairGetModelFails
    \/ \E exc \in InvokeExceptions \ {"ValidationError"} : PRepairRaises(exc)
    \/ PNormalizeValidate

SpecPipeline == Init /\ [][NextPipeline]_vars

(* ---------------- generate_quiz (api.py 133-192) ---------------------- *)
(* a handler that consults the lookup whatever the flag *)
ConsultsLookup_Always(force) == TRUE

(* api.py 153: the dedup lookup is consulted unless the caller forces *)
ConsultsLookup(force) == ~force

(* an acquire that never waits *)
SemAvailable_Always(sem) == TRUE

(* asyncio.Semaphore.acquire proceeds only while the value is positive *)
SemAvailable(sem) == sem > 0

(* api.py 163: the value of _llm_sem once the async-with block is left,   *)
(* by the call returning and by the call raising                          *)
GateOnReturn(sem) == sem + 1

(* a gate that is released on the normal path only *)
GateOnRaise_Leak(sem) == sem

GateOnRaise(sem) == sem + 1

(* a handler whose try block ends before the final gate, so that a       *)
(* ValidationError of the gate goes unhandled                             *)
FailureStatus_Uncaught(stage) == IF stage = "validation" THEN 500 ELSE 502

(* api.py 162-175: the status of the HTTPException raised by the except   *)
(* clause that spans the model call ("generation") and the normalization  *)
(* with the final gate ("validation")                                     *)
FailureStatus(stage) == 502

(* what generate_quiz_payload hands back when it returns: an object that  *)
(* passed _normalize_result and QuizOutputModel.model_validate            *)
PipelineReturns == {_normalize_result(o) : o \in {x \in ModelOutputs :
                                          QuizOutputModelValid(_normalize_result(x))}}

(* the HTTP response of generate_quiz: status code, record id, and the    *)
(* place in the handler that produced it                                  *)
Respond(s, code, id, via) ==
    /\ req' = [req EXCEPT ![s] = [@ EXCEPT !.pc = "done", !.status = code, !.id = id,
                                  !.via = via, !.raw = NoOutput, !.holds = FALSE,
                                  !.url = None, !.text = None,
                                  !.min_questions = NoBound,
                                  !.max_questions = NoBound]]
    /\ served' = IF code = 201 /\ ~req[s].force THEN served \cup {id} ELSE served

(* the client has its response; the next request may arrive *)
Return(s) ==
    /\ req[s].pc = "done"
    /\ req' = [req EXCEPT ![s] = IdleReq]
    /\ UNCHANGED <<gm, nz, fb, quizzes, llm_sem, served, pl, rd, gr, storeVars>>

(* a client issues POST /generate_quiz; api.py 141-144 starts the fetch *)
StartRequest(s, url, force) ==
    /\ req[s].pc = "idle"
    /\ req' = [req EXCEPT ![s] = [@ EXCEPT !.pc = "fetch", !.url = url, !.force = force]]
    /\ UNCHANGED <<gm, nz, fb, quizzes, llm_sem, served, pl, rd, gr, storeVars>>

(* schemas.py 47-59: GenerateQuizRequest accepts bounds that are left out *)
(* or lie in 1..20, with min_questions <= max_questions when both are    *)
(* given                                                                 *)
RequestValid(min_questions, max_questions) ==
    /\ min_questions = NoBound \/ min_questions \in 1..REQUEST_BOUND_MAX
    /\ max_questions = NoBound \/ max_questions \in 1..REQUEST_BOUND_MAX
    /\ (min_questions # NoBound /\ max_questions # NoBound)
          => min_questions <= max_questions

(* api.py 159: min_questions = req.min_questions or 7 *)
EffectiveMin(min_questions) ==
    IF min_questions = NoBound THEN DEFAULT_MIN_QUESTIONS ELSE min_questions

(* api.py 160: req.max_questions if it is not None, else                  *)
(* max(min_questions, 10)                                                 *)
EffectiveMax(min_questions, max_questions) ==
    IF max_questions # NoBound THEN max_questions
    ELSE IF EffectiveMin(min_questions) > DEFAULT_MAX_QUESTIONS
         THEN EffectiveMin(min_questions) ELSE DEFAULT_MAX_QUESTIONS

(* POST /generate_quiz with min_questions and max_questions in the body  *)
StartRequestWithBounds(s, url, force, min_questions, max_questions) ==
    /\ req[s].pc = "idle"
    /\ RequestValid(min_questions, max_questions)
    /\ req' = [req EXCEPT ![s] = [@ EXCEPT !.pc = "fetch", !.url = url, !.force = force,
                                  !.min_questions = min_questions,
                                  !.max_questions = max_questions]]
    /\ UNCHANGED <<gm, nz, fb, quizzes, llm_sem, served, pl, rd, gr, storeVars>>

(* the body does not validate as GenerateQuizRequest: FastAPI answers 422 *)
(* before the handler runs                                                *)
RejectRequest(s, min_questions, max_questions) ==
    /\ req[s].pc = "idle"
    /\ ~RequestValid(min_questions, max_questions)
    /\ Respond(s, 422, 0, "request")
    /\ UNCHANGED <<gm, nz, fb, quizzes, llm_sem, pl, rd, gr, storeVars>>

(* api.py 143-147 with scraper.fetch_wikipedia: a URL outside the pattern *)
(* or a failed fetch is answered with 502                                 *)
FetchFails(s) ==
    /\ req[s].pc = "fetch"
    /\ Respond(s, 502, 0, "fetch")
    /\ UNCHANGED <<gm, nz, fb, quizzes, llm_sem, pl, rd, gr, storeVars>>

(* api.py 144-151: the article is fetched and both fingerprints computed *)
FetchOk(s, text) ==
    /\ req[s].pc = "fetch"
    /\ req[s].url \in WIKI_ALLOWED
    /\ req' = [req EXCEPT ![s] = [@ EXCEPT !.text = text,
                  !.pc = IF ConsultsLookup(req[s].force) THEN "lookup" ELSE "gate"]]
    /\ UNCHANGED <<gm, nz, fb, quizzes, llm_sem, served, pl, rd, gr, storeVars>>

(* api.py 153-157: the dedup lookup; _quiz_to_response (107-115)          *)
(* validates the stored payload of a hit                                  *)
Lookup(s) ==
    /\ req[s].pc = "lookup"
    /\ LET r == get_quiz_by_urlhash_and_contenthash(
                    quizzes, sha256_hex(req[s].url), sha256_hex(req[s].text)) IN
       IF r.kind = "hit"
       THEN IF QuizPayloadValid(RowOfId(r.id).full_quiz_data)
            THEN Respond(s, 201, r.id, "hit")
            ELSE Respond(s, 500, 0, "response")
       ELSE IF r.kind = "error" THEN Respond(s, 500, 0, "lookup")
       ELSE /\ req' = [req EXCEPT ![s] = [@ EXCEPT !.pc = "gate"]]
            /\ UNCHANGED served
    /\ UNCHANGED <<gm, nz, fb, quizzes, llm_sem, pl, rd, gr, storeVars>>

(* api.py 163: async with _llm_sem *)
AcquireGate(s) ==
    /\ req[s].pc = "gate"
    /\ SemAvailable(llm_sem)
    /\ llm_sem' = llm_sem - 1
    /\ req' = [req EXCEPT ![s] = [@ EXCEPT !.pc = "model_call", !.holds = TRUE]]
    /\ UNCHANGED <<gm, nz, fb, quizzes, served, pl, rd, gr, storeVars>>

(* api.py 164-170: generate_quiz_payload returns; the async-with exits *)
ModelCallReturns(s, obj) ==
    /\ req[s].pc = "model_call"
    /\ llm_sem' = GateOnReturn(llm_sem)
    /\ req' = [req EXCEPT ![s] = [@ EXCEPT !.raw = obj, !.pc = "normalize",
                                  !.holds = FALSE]]
    /\ UNCHANGED <<gm, nz, fb, quizzes, served, pl, rd, gr, storeVars>>

(* api.py 164-175: generate_quiz_payload raises; the async-with exits and *)
(* the except clause answers 502                                          *)
ModelCallRaises(s) ==
    /\ req[s].pc = "model_call"
    /\ llm_sem' = GateOnRaise(llm_sem)
    /\ Respond(s, FailureStatus("generation"), 0, "generation")
    /\ UNCHANGED <<gm, nz, fb, quizzes, pl, rd, gr, storeVars>>

(* api.py 171-175: _normalize_payload and the final QuizPayload gate *)
NormalizeAndValidate(s) ==
    /\ req[s].pc = "normalize"
    /\ LET payload == _normalize_payload(req[s].raw) IN
       IF QuizPayloadValid(payload)
       THEN /\ req' = [req EXCEPT ![s] = [@ EXCEPT !.pc = "create", !.raw = payload]]
            /\ UNCHANGED served
       ELSE Respond(s, FailureStatus("validation"), 0, "validation")
    /\ UNCHANGED <<gm, nz, fb, quizzes, llm_sem, pl, rd, gr, storeVars>>

(* api.py 177-192: crud.create_quiz commits the row *)
CreateOk(s) ==
    /\ req[s].pc = "create"
    /\ Len(quizzes) < MaxRows
    /\ quizzes' = create_quiz(quizzes, req[s].url, req[s].text,
                              sha256_hex(req[s].text), req[s].raw)
    /\ Respond(s, 201, quizzes'[Len(quizzes')].id, "created")
    /\ UNCHANGED <<gm, nz, fb, llm_sem, pl, rd, gr, storeVars>>

(* api.py 188-190: the commit fails, nothing is written, 500 *)
CreateFails(s) ==
    /\ req[s].pc = "create"
    /\ Respond(s, 500, 0, "persist")
    /\ UNCHANGED <<gm, nz, fb, quizzes, llm_sem, pl, rd, gr, storeVars>>

(* crud.py 33-34, api.py 188-190: the commit succeeds and the refresh     *)
(* that follows it raises; create_quiz raises and the handler answers 500 *)
RefreshFails(s) ==
    /\ req[s].pc = "create"
    /\ Len(quizzes) < MaxRows
    /\ quizzes' = create_quiz(quizzes, req[s].url, req[s].text,
                              sha256_hex(req[s].text), req[s].raw)
    /\ Respond(s, 500, 0, "refresh")
    /\ UNCHANGED <<gm, nz, fb, llm_sem, pl, rd, gr, storeVars>>

(* the steps of generate_quiz, for the requests of SlotSet whose force     *)
(* flag is in Forces                                                      *)
GenerateQuizStep(SlotSet, Forces) ==
    \/ \E s \in SlotSet, url \in URLs, force \in Forces : StartRequest(s, url, force)
    \/ \E s \in SlotSet : FetchFails(s)
    \/ \E s \in SlotSet, text \in Texts : FetchOk(s, text)
    \/ \E s \in SlotSet : Lookup(s)
    \/ \E s \in SlotSet : AcquireGate(s)
    \/ \E s \in SlotSet, obj \in PipelineReturns : ModelCallReturns(s, obj)
    \/ \E s \in SlotSet : ModelCallRaises(s)
    \/ \E s \in SlotSet : NormalizeAndValidate(s)
    \/ \E s \in SlotSet : CreateOk(s)
    \/ \E s \in SlotSet : CreateFails(s)
    \/ \E s \in SlotSet : RefreshFails(s)
    \/ \E s \in SlotSet : Return(s)

Next == GenerateQuizStep(Slots, BOOLEAN)

Spec == Init /\ [][Next]_vars

(* one request at a time, over more inputs: question bounds in the body  *)
(* and an article with a short body                                      *)
MinChoices == {NoBound, 3, 8, 21}
MaxChoices == {NoBound, 4, 9}

NextInputs ==
    \/ GenerateQuizStep({1}, BOOLEAN)
    \/ \E url \in URLs, force \in BOOLEAN, min_questions \in MinChoices,
          max_questions \in MaxChoices :
            StartRequestWithBounds(1, url, force, min_questions, max_questions)
    \/ \E min_questions \in MinChoices, max_questions \in MaxChoices :
            RejectRequest(1, min_questions, max_questions)
    \/ \E text \in ShortTexts : FetchOk(1, text)

SpecInputs == Init /\ [][NextInputs]_vars

(* the same service when no client ever sets force *)
NextNoForce == GenerateQuizStep(Slots, {FALSE})

SpecNoForce == Init /\ [][NextNoForce]_vars

(* ---------------- read handlers (api.py 195-263) ----------------------- *)
Range(f) == {f[i] : i \in DOMAIN f}

Min(a, b) == IF a < b THEN a ELSE b
Max(a, b) == IF a > b THEN a ELSE b

(* a select ordered by ascending id *)
list_quizzes_Ascending(db, skip, limit) ==
    [items |-> SubSeq(db, skip + 1, Min(skip + limit, Len(db))), total |-> Len(db)]

(* crud.py 15-19: the rows by descending id, offset skip, limit rows, and *)
(* the number of rows in the table                                        *)
list_quizzes(db, skip, limit) ==
    LET desc == [k \in 1..Len(db) |->
                    CHOOSE r \in Range(db) :
                        Cardinality({x \in Range(db) : x.id > r.id}) = k - 1]
    IN [items |-> SubSeq(desc, skip + 1, Min(skip + limit, Len(db))),
        total |-> Len(db)]

(* the detail texts of the HTTPExceptions at api.py 199, 225 and 232, and *)
(* the test of test_backend.py 168 on a detail: "not found" occurs in its *)
(* lowercased text                                                        *)
NotFoundDetail == "Quiz not found or expired"
CountMismatchDetail == "answer count mismatch"
MentionsNotFound(detail) == detail = NotFoundDetail

(* api.py 195-200: GET /quiz/{quiz_id}; _quiz_to_response (107-115)       *)
(* validates the stored payload                                           *)
GetQuiz(quiz_id) ==
    /\ LET i == get_quiz_by_id(quizzes, quiz_id)
           call == [NoRead EXCEPT !.op = "get_quiz"]
       IN
       rd' = IF i = 0
             THEN [call EXCEPT !.status = 404, !.detail = NotFoundDetail]
             ELSE IF ~QuizPayloadValid(quizzes[i].full_quiz_data)
             THEN [call EXCEPT !.status = 500]
             ELSE [call EXCEPT !.status = 200,
                                 !.id = quizzes[i].id,
                                 !.full_quiz_data = quizzes[i].full_quiz_data]
    /\ UNCHANGED <<gm, nz, fb, apiVars, pl, gr, storeVars>>

(* api.py 203-215: GET /history *)
History(page, page_size) ==
    /\ LET pg == Max(page, 1)
           ps == Max(1, Min(page_size, MAX_PAGE_SIZE))
           skip == (pg - 1) * ps
           r == list_quizzes(quizzes, skip, ps)
       IN rd' = [NoRead EXCEPT !.op = "history", !.status = 200,
                               !.skip = skip, !.limit = ps,
                               !.items = [k \in DOMAIN r.items |-> r.items[k].id],
                               !.total = r.total]
    /\ UNCHANGED <<gm, nz, fb, apiVars, pl, gr, storeVars>>

(* api.py 218-263: POST /grade with a list of n_answers answers; 404      *)
(* before the count check, 400 on a count mismatch, else the graded total *)
GradeQuiz(quiz_id, n_answers) ==
    /\ LET i == get_quiz_by_id(quizzes, quiz_id)
           call == [NoRead EXCEPT !.op = "grade"]
       IN
       rd' = IF i = 0
             THEN [call EXCEPT !.status = 404, !.detail = NotFoundDetail]
             ELSE IF ~QuizPayloadValid(quizzes[i].full_quiz_data)
             THEN [call EXCEPT !.status = 500]
             ELSE IF n_answers # quizzes[i].full_quiz_data.n
             THEN [call EXCEPT !.status = 400, !.detail = CountMismatchDetail]
             ELSE [call EXCEPT !.status = 200, !.id = quiz_id,
                                 !.total = quizzes[i].full_quiz_data.n]
    /\ UNCHANGED <<gm, nz, fb, apiVars, pl, gr, storeVars>>

QuizIds == 1..(MaxRows + 1)
Pages == {0, 1, 2}
PageSizes == {0, 1, 60}

ReadStep(PageSet, SizeSet, AnswerCounts) ==
    \/ \E quiz_id \in QuizIds : GetQuiz(quiz_id)
    \/ \E page \in PageSet, page_size \in SizeSet : History(page, page_size)
    \/ \E quiz_id \in QuizIds, n_answers \in AnswerCounts : GradeQuiz(quiz_id, n_answers)

(* the four endpoints together, one generate_quiz request at a time, the  *)
(* history read by its first page                                         *)
NextApi == GenerateQuizStep({1}, BOOLEAN) \/ ReadStep({1}, {1, 60}, QuizLens)

SpecApi == Init /\ [][NextApi]_vars

(* the read endpoints over every page and page size, on a table filled by *)
(* forced requests whose payload passes the final gate                    *)
GoodReturns ==
    {obj \in PipelineReturns : QuizPayloadValid(_normalize_payload(obj))}

NextReads ==
    \/ \E url \in URLs : StartRequest(1, url, TRUE)
    \/ \E text \in Texts : FetchOk(1, text)
    \/ AcquireGate(1)
    \/ \E obj \in GoodReturns : ModelCallReturns(1, obj)
    \/ NormalizeAndValidate(1)
    \/ CreateOk(1)
    \/ Return(1)
    \/ ReadStep(Pages, PageSizes, QuizLens)

SpecReads == Init /\ [][NextReads]_vars

(* ---------------- grade_quiz on the quiz items (api.py 61-75, 218-263) - *)
(* option and answer texts, with their str.strip().lower() forms *)
Strs == {"Paris", "paris", " PARIS ", "Rome", "Oslo", "Bern"}

Lowered(t) ==
    CASE t \in {"Paris", "paris", " PARIS "} -> "paris"
      [] t = "Rome" -> "rome"
      [] t = "Oslo" -> "oslo"
      [] t = "Bern" -> "bern"

(* stored quiz items: four options and the answer as option text *)
ItemExactAfterLoose ==
    [options |-> <<"paris", "Rome", "Paris", "Oslo">>, answer |-> "Paris"]
ItemLooseOnly ==
    [options |-> <<"Rome", " PARIS ", "Oslo", "paris">>, answer |-> "Paris"]
ItemNoMatch ==
    [options |-> <<"Rome", "Oslo", "Bern", "Rome">>, answer |-> "Paris"]
ItemExactTwice ==
    [options |-> <<"Oslo", "Bern", "Bern", "Rome">>, answer |-> "Bern"]
ItemExactFirst ==
    [options |-> <<"Rome", "Oslo", "Bern", "Paris">>, answer |-> "Rome"]

(* the quiz lists of stored records: the table may also hold rows written  *)
(* by src/app/api.py 66-81, which stores what passed QuizOutputModel and   *)
(* so puts no bound on the number of items                                 *)
QuizOfFive ==
    <<ItemExactAfterLoose, ItemLooseOnly, ItemNoMatch, ItemExactTwice, ItemExactFirst>>
QuizOfSix ==
    <<ItemNoMatch, ItemExactFirst, ItemLooseOnly, ItemExactAfterLoose, ItemNoMatch,
      ItemExactTwice>>
QuizOfNone == <<>>
StoredQuizzes == {QuizOfFive, QuizOfSix, QuizOfNone}

(* the option indexes a client submits, and the answer lists of a request *)
AnswerChoices == {-1, 1, 2}
AnswerLists == UNION {[1..k -> AnswerChoices] : k \in 0..MaxAnswers}

(* list.index(x): the 0-based position of the first element equal to x,   *)
(* -1 standing for ValueError                                             *)
RECURSIVE IndexFrom(_, _, _)
IndexFrom(seq, x, i) ==
    IF i > Len(seq) THEN -1
    ELSE IF seq[i] = x THEN i - 1
    ELSE IndexFrom(seq, x, i + 1)

(* a derivation that knows the exact match only *)
_derive_correct_index_ExactOnly(q) == IndexFrom(q.options, q.answer, 1)

(* api.py 61-75 *)
_derive_correct_index(q) ==
    LET exact == IndexFrom(q.options, q.answer, 1) IN
    IF exact # -1 THEN exact
    ELSE IndexFrom([i \in DOMAIN q.options |-> Lowered(q.options[i])],
                   Lowered(q.answer), 1)

(* api.py 240: is_correct *)
IsCorrect(user_idx, correct_idx) == user_idx = correct_idx /\ correct_idx # -1

(* a handler that grades whatever it is given *)
CountMismatch_Never(answers, questions) == FALSE

(* api.py 231: len(req.answers) != len(questions) *)
CountMismatch(answers, questions) == Len(answers) # Len(questions)

(* api.py 227 with schemas.py 30: QuizPayload.model_validate of the stored *)
(* payload, whose items fit QuizItem, checks the number of items           *)
StoredPayloadValid(quiz) == Len(quiz) >= QUIZ_MIN_LEN /\ Len(quiz) <= QUIZ_MAX_LEN

(* api.py 255: round((correct_total / total) * 100.0, 2) if total else     *)
(* 0.0, in hundredths. correct_total * 10000 / total is never halfway      *)
(* between two integers for a total below 32, so the rounding mode of      *)
(* round() plays no part.                                                  *)
ScoreOf(correct_total, total) ==
    IF total # 0 THEN (2 * 10000 * correct_total + total) \div (2 * total) ELSE 0

(* api.py 224-232: the record is found, its payload validated and the      *)
(* answer count compared                                                   *)
GradeStart(quiz, answers) ==
    /\ gr.pc = "idle"
    /\ gr' = IF ~StoredPayloadValid(quiz)
             THEN [gr EXCEPT !.pc = "done", !.quiz = quiz, !.answers = answers,
                             !.status = 500]
             ELSE IF CountMismatch(answers, quiz)
             THEN [gr EXCEPT !.pc = "done", !.quiz = quiz, !.answers = answers,
                             !.status = 400]
             ELSE [gr EXCEPT !.pc = "loop", !.quiz = quiz, !.answers = answers]
    /\ UNCHANGED <<gm, nz, fb, apiVars, pl, rd, storeVars>>

(* api.py 237-252: one round of the loop over zip(req.answers, questions) *)
GradeItem ==
    /\ gr.pc = "loop"
    /\ gr.idx < Min(Len(gr.answers), Len(gr.quiz))
    /\ LET user_idx == gr.answers[gr.idx + 1]
           correct_idx == _derive_correct_index(gr.quiz[gr.idx + 1])
           is_correct == IsCorrect(user_idx, correct_idx)
       IN gr' = [gr EXCEPT
                    !.idx = @ + 1,
                    !.correct_total = IF is_correct THEN @ + 1 ELSE @,
                    !.results = Append(@, [index |-> gr.idx, chosen |-> user_idx,
                                           correct |-> correct_idx,
                                           is_correct |-> is_correct])]
    /\ UNCHANGED <<gm, nz, fb, apiVars, pl, rd, storeVars>>

(* api.py 254-263: total, score and the response *)
GradeFinish ==
    /\ gr.pc = "loop"
    /\ gr.idx = Min(Len(gr.answers), Len(gr.quiz))
    /\ gr' = [gr EXCEPT !.pc = "done", !.status = 200,
                        !.total = Len(gr.quiz),
                        !.correct = gr.correct_total,
                        !.score = ScoreOf(gr.correct_total, Len(gr.quiz))]
    /\ UNCHANGED <<gm, nz, fb, apiVars, pl, rd, storeVars>>

NextGrade ==
    \/ \E quiz \in StoredQuizzes, answers \in AnswerLists : GradeStart(quiz, answers)
    \/ GradeItem
    \/ GradeFinish

SpecGrade == Init /\ [][NextGrade]_vars

(* ---------------- generate_rule_based_quiz (services/fallback_quiz.py) - *)
(* What ENTITY_PATTERN.findall (fallback_quiz.py 24, 42) finds in a        *)
(* sentence: runs of capitalised words. A sentence is given by the list of *)
(* its matches and its length in characters.                               *)
Matches == {"Paris", "PaRis", "Rome", "Oslo", "Bern", "The Hague", "NASA", "Al",
            "Alan Turing", "Untitled Article"}

(* fallback_quiz.py 46-52: matches dropped by _extract_entities *)
HeadIsStopword(m) == m \in {"The Hague"}
IsAllUpper(m) == m \in {"NASA"}
IsTooShort(m) == m \in {"Al"}

(* str.lower() of a match (fallback_quiz.py 62) *)
EntityLower(m) == IF m = "PaRis" THEN "Paris" ELSE m

(* fallback_quiz.py 41-54 *)
_extract_entities(matches) ==
    SelectSeq(matches, LAMBDA m : ~HeadIsStopword(m) /\ ~IsAllUpper(m) /\ ~IsTooShort(m))

RECURSIVE Flatten(_)
Flatten(seqs) == IF seqs = <<>> THEN <<>> ELSE Head(seqs) \o Flatten(Tail(seqs))

RECURSIVE Collect(_, _, _, _)
Collect(ents, seen, items, limit) ==
    IF ents = <<>> \/ Len(items) >= limit THEN items
    ELSE IF EntityLower(Head(ents)) \in seen
         THEN Collect(Tail(ents), seen, items, limit)
         ELSE Collect(Tail(ents), seen \cup {EntityLower(Head(ents))},
                      Append(items, Head(ents)), limit)

(* fallback_quiz.py 57-69: the entities of the sentences in order, one per *)
(* lowercased form, at most limit of them                                  *)
_collect_entities(sentences, limit) ==
    Collect(Flatten([k \in DOMAIN sentences |-> _extract_entities(sentences[k])]),
            {}, <<>>, limit)

GENERIC_DISTRACTORS ==
    <<"A different historical event", "An unrelated scientific topic",
      "A fictional character", "A random geographic location",
      "A general cultural reference", "None of the above">>

(* Python's seq[:n] for any integer n *)
SliceTo(seq, n) ==
    IF n >= 0 THEN SubSeq(seq, 1, Min(n, Len(seq)))
    ELSE SubSeq(seq, 1, Max(Len(seq) + n, 0))

(* random.Random.shuffle: the list comes back in some other order; the     *)
(* model draws the order from ShuffleKinds                                 *)
ShuffleKinds == {"keep", "reverse"}
Shuffled(seq, kind) ==
    IF kind = "keep" THEN seq
    ELSE [k \in DOMAIN seq |-> seq[Len(seq) + 1 - k]]

(* fallback_quiz.py 85-86: while len(options) < 4: append the same text *)
PadOptions(options) ==
    options \o [k \in 1..(4 - Len(options)) |-> "None of the above"]

(* fallback_quiz.py 72-101; distractors arrive shuffled (174, 183) *)
_build_question(answer, distractors, kind) ==
    LET options == <<answer>> \o SliceTo(distractors, 3)
        padded == IF Len(options) < 4 THEN PadOptions(options) ELSE options
    IN [options |-> Shuffled(padded, kind), answer |-> answer, difficulty |-> "medium"]

(* fallback_quiz.py 104-118 *)
_generic_question(title, kind1, kind2) ==
    LET pool == SelectSeq(GENERIC_DISTRACTORS, LAMBDA opt : opt # title)
        options == <<title>> \o SliceTo(Shuffled(pool, kind1), 3)
    IN [options |-> Shuffled(options, kind2), answer |-> title, difficulty |-> "easy"]

(* the titles and article bodies handed in; "" also stands for None, which *)
(* line 135 treats alike                                                   *)
Titles == {"", "  ", "Alan Turing"}

(* fallback_quiz.py 135: title.strip() if title else "Untitled Article" *)
CleanTitle(title) ==
    IF title = "" THEN "Untitled Article" ELSE IF title = "  " THEN "" ELSE title

(* the matches in f"{clean_title} is the focus of this article." (144) *)
TitleMatches(clean_title) == IF clean_title = "" THEN <<>> ELSE <<clean_title>>

ArticleEmpty == <<>>
ArticleNote == <<[matches |-> <<"Al">>, chars |-> 30]>>
ArticleNoteNamed == <<[matches |-> <<"Oslo">>, chars |-> 30]>>
ArticleOneEntity ==
    <<[matches |-> <<"Paris", "NASA">>, chars |-> 120],
      [matches |-> <<>>, chars |-> 90]>>
ArticleTwoEntities ==
    <<[matches |-> <<"Paris", "Rome">>, chars |-> 130],
      [matches |-> <<"PaRis", "The Hague">>, chars |-> 80]>>
ArticleRich ==
    <<[matches |-> <<"Paris", "Rome", "Oslo">>, chars |-> 150],
      [matches |-> <<"Bern", "Alan Turing", "Untitled Article">>, chars |-> 110],
      [matches |-> <<"Rome">>, chars |-> 20]>>
Articles == {ArticleEmpty, ArticleNote, ArticleNoteNamed, ArticleOneEntity,
             ArticleTwoEntities, ArticleRich}

RECURSIVE SumChars(_)
SumChars(article) ==
    IF article = <<>> THEN 0 ELSE Head(article).chars + SumChars(Tail(article))

(* len(article_text.strip()): the sentences and the blanks between them *)
BodyChars(article) == IF article = <<>> THEN 0 ELSE SumChars(article) + Len(article) - 1

(* fallback_quiz.py 36-38: the sentences longer than 40 characters *)
_split_sentences(article) ==
    LET long == SelectSeq(article, LAMBDA st : st.chars > 40)
    IN [k \in DOMAIN long |-> long[k].matches]

(* fallback_quiz.py 139-144 *)
SentencesOf(article, clean_title) ==
    IF _split_sentences(article) # <<>> THEN _split_sentences(article)
    ELSE IF article # <<>>
         THEN <<Flatten([k \in DOMAIN article |-> article[k].matches])>>
         ELSE <<TitleMatches(clean_title)>>

FbMins == {-1, 0, 1, 3}
FbMaxs == {-1, 0, 2, 3}

(* fallback_quiz.py 135-164: the locals before the sentence loop *)
FbStart(title, article, min_questions, max_questions) ==
    /\ fb.pc = "idle"
    /\ LET clean_title == CleanTitle(title)
           sentences == SentencesOf(article, clean_title)
           entities == _collect_entities(sentences, 80)
           key_entities == SliceTo(entities, 5)
       IN fb' = [IdleFallback EXCEPT
                    !.pc = "sentences", !.clean_title = clean_title,
                    !.body_chars = BodyChars(article),
                    !.sentences = sentences, !.entities = entities,
                    !.unused_entities =
                        SelectSeq(entities, LAMBDA e : e \notin Range(key_entities)),
                    !.i = 1,
                    !.min_questions = min_questions, !.max_questions = max_questions]
    /\ UNCHANGED <<gm, nz, apiVars, pl, rd, gr, storeVars>>

(* fallback_quiz.py 178-179: the entities the second loop will use *)
FillList(quiz_items, min_questions, unused_entities) ==
    IF Len(quiz_items) < min_questions /\ unused_entities # <<>>
    THEN SliceTo(unused_entities,
                 Min(min_questions - Len(quiz_items), Len(unused_entities)))
    ELSE <<>>

(* fallback_quiz.py 166-176: one turn of the loop over the sentences *)
FbSentence ==
    /\ fb.pc = "sentences"
    /\ IF fb.i > Len(fb.sentences) \/ Len(fb.quiz_items) >= fb.max_questions
       THEN fb' = [fb EXCEPT !.pc = "fill",
                             !.todo = FillList(fb.quiz_items, fb.min_questions,
                                               fb.unused_entities)]
       ELSE LET candidates == _extract_entities(fb.sentences[fb.i]) IN
            IF candidates = <<>>
            THEN fb' = [fb EXCEPT !.i = fb.i + 1]
            ELSE \E kind1, kind2 \in ShuffleKinds :
                    LET answer == candidates[1]
                        distractors == SelectSeq(fb.entities, LAMBDA e : e # answer)
                    IN fb' = [fb EXCEPT
                                !.i = fb.i + 1,
                                !.quiz_items = Append(fb.quiz_items,
                                    _build_question(answer, Shuffled(distractors, kind1),
                                                    kind2))]
    /\ UNCHANGED <<gm, nz, apiVars, pl, rd, gr, storeVars>>

(* fallback_quiz.py 178-184: one turn of the loop over the unused entities *)
FbFill ==
    /\ fb.pc = "fill"
    /\ IF fb.todo = <<>>
       THEN fb' = [fb EXCEPT !.pc = "pad"]
       ELSE \E kind1, kind2 \in ShuffleKinds :
               LET ent == Head(fb.todo)
                   distractors == SelectSeq(fb.entities, LAMBDA e : e # ent)
               IN fb' = [fb EXCEPT
                           !.todo = Tail(fb.todo),
                           !.quiz_items = Append(fb.quiz_items,
                               _build_question(ent, Shuffled(distractors, kind1), kind2))]
    /\ UNCHANGED <<gm, nz, apiVars, pl, rd, gr, storeVars>>

(* fallback_quiz.py 186-187: one turn of the padding loop *)
FbPad ==
    /\ fb.pc = "pad"
    /\ Len(fb.quiz_items) < fb.min_questions
    /\ \E kind1, kind2 \in ShuffleKinds :
          fb' = [fb EXCEPT !.quiz_items =
                    Append(fb.quiz_items, _generic_question(fb.clean_title, kind1, kind2))]
    /\ UNCHANGED <<gm, nz, apiVars, pl, rd, gr, storeVars>>

AtLeastOne_Skip(quiz_items, generic) == quiz_items

(* fallback_quiz.py 191-192 *)
AtLeastOne(quiz_items, generic) ==
    IF quiz_items = <<>> THEN <<generic>> ELSE quiz_items

(* fallback_quiz.py 189-205: truncate, never return an empty quiz *)
FbFinish ==
    /\ fb.pc = "pad"
    /\ Len(fb.quiz_items) >= fb.min_questions
    /\ \E kind1, kind2 \in ShuffleKinds :
          fb' = [fb EXCEPT
                    !.pc = "done",
                    !.quiz_items =
                        AtLeastOne(SliceTo(fb.quiz_items, fb.max_questions),
                                   _generic_question(fb.clean_title, kind1, kind2))]
    /\ UNCHANGED <<gm, nz, apiVars, pl, rd, gr, storeVars>>

NextFallback ==
    \/ \E title \in Titles, article \in Articles,
          min_questions \in FbMins, max_questions \in FbMaxs :
            FbStart(title, article, min_questions, max_questions)
    \/ FbSentence
    \/ FbFill
    \/ FbPad
    \/ FbFinish

SpecFallback == Init /\ [][NextFallback]_vars

(* ---------------- the normalization passes on a provider object -------- *)
(* quiz_generator.py 120-141 (_normalize_result) and api.py 78-96          *)
(* (_normalize_payload) on the dictionary itself. A value of key_entities  *)
(* is a dict or a list, given by its items in insertion order (a list item *)
(* is a name with no value), or absent. An optional list field is the set  *)
(* of its values: {} when the key is absent.                               *)
Entry(key, value) == [key |-> key, value |-> value]
DictOf(items) == [kind |-> "dict", items |-> items]
ListOf(names) == [kind |-> "list", items |-> [k \in DOMAIN names |-> Entry(names[k], <<>>)]]

KeEmptyDict == DictOf(<<>>)
KeFlat == DictOf(<<Entry("Alan Turing", <<"mathematician">>),
                   Entry("Enigma", <<"cipher machine">>)>>)
KePartial == DictOf(<<Entry("people", <<"Alan Turing">>), Entry("organizations", <<>>)>>)
KeFull == DictOf(<<Entry("people", <<"Alan Turing">>), Entry("organizations", <<"GCHQ">>),
                   Entry("locations", <<>>)>>)
KeList == ListOf(<<"Alan Turing">>)
KeEmptyList == ListOf(<<>>)
KeyEntityValues == {AbsentValue, KeEmptyDict, KeFlat, KePartial, KeFull, KeList, KeEmptyList}

(* list(ke.keys()) *)
KeysOf(ke) == [k \in DOMAIN ke.items |-> ke.items[k].key]

Categories == {"people", "organizations", "locations"}

HasCategories_Never(ke) == FALSE

(* {"people", "organizations", "locations"}.issubset(ke.keys()) *)
HasCategories(ke) == Categories \subseteq Range(KeysOf(ke))

(* {"people": names, "organizations": [], "locations": []} *)
PeopleOnly(names) ==
    DictOf(<<Entry("people", names), Entry("organizations", <<>>),
             Entry("locations", <<>>)>>)

(* Python truth of a value: None, {} and [] are false *)
Truthy(v) == v.kind # "absent" /\ v.items # <<>>

(* quiz_generator.py 126-131 *)
ResultKeyEntities(ke) ==
    IF ke.kind = "dict" /\ ~HasCategories(ke) THEN PeopleOnly(KeysOf(ke))
    ELSE IF ke.kind = "absent" THEN PeopleOnly(<<>>)
    ELSE ke

(* api.py 82-89: ke = obj.get("key_entities") or {} *)
PayloadKeyEntities(ke) ==
    LET k == IF Truthy(ke) THEN ke ELSE KeEmptyDict IN
    IF k.kind # "dict" \/ ~HasCategories(k)
    THEN PeopleOnly(IF k.kind = "dict" THEN KeysOf(k) ELSE <<>>)
    ELSE ke

(* a difficulty value: a string, or something else such as a number *)
DifficultyValues ==
    {[type |-> "str", text |-> "easy"], [type |-> "str", text |-> " Easy "],
     [type |-> "str", text |-> "extreme"], [type |-> "int", text |-> "2"]}

(* quiz_generator.py 135-137, api.py 92-94 *)
ItemDifficulty(q) ==
    IF q.difficulty.type = "str"
    THEN [q EXCEPT !.difficulty.text = StripLower(q.difficulty.text)]
    ELSE q

(* the loop over the quiz items, when the object has a quiz list *)
NormalizeQuiz(quiz) == {[k \in DOMAIN items |-> ItemDifficulty(items[k])] : items \in quiz}

SetDefault_Leave(field) == field

(* dict.setdefault(key, []) (quiz_generator.py 139-140) *)
SetDefault(field) == IF field = {} THEN {<<>>} ELSE field

(* quiz_generator.py 120-141 *)
NormalizeResultObject(obj) ==
    [obj EXCEPT !.key_entities = ResultKeyEntities(obj.key_entities),
                !.quiz = NormalizeQuiz(obj.quiz),
                !.sections = SetDefault(obj.sections),
                !.related_topics = SetDefault(obj.related_topics)]

(* api.py 78-96 *)
NormalizePayloadObject(obj) ==
    [obj EXCEPT !.key_entities = PayloadKeyEntities(obj.key_entities),
                !.quiz = NormalizeQuiz(obj.quiz)]

QuizValues ==
    {<<>>,
     <<[question |-> "Q1", difficulty |-> [type |-> "str", text |-> " Easy "]]>>,
     <<[question |-> "Q1", difficulty |-> [type |-> "str", text |-> "easy"]],
       [question |-> "Q2", difficulty |-> [type |-> "int", text |-> "2"]]>>,
     <<[question |-> "Q1", difficulty |-> [type |-> "str", text |-> "extreme"]],
       [question |-> "Q2", difficulty |-> [type |-> "str", text |-> " Easy "]]>>}

Objects ==
    [title : {"Alan Turing"},
     key_entities : KeyEntityValues,
     quiz : {{}} \cup {{v} : v \in QuizValues},
     sections : {{}, {<<"Early life", "Legacy">>}},
     related_topics : {{}, {<<"Cryptanalysis">>}}]

(* a provider object arrives *)
NzLoad(obj) ==
    /\ nz.pc = "idle"
    /\ nz' = [IdleNormalize EXCEPT !.pc = "loaded", !.input = obj, !.obj = obj]
    /\ UNCHANGED <<gm, apiVars, pl, rd, gr, fb, storeVars>>

(* obj = _normalize_result(obj) (quiz_generator.py 253) *)
NzResult ==
    /\ nz.pc = "loaded"
    /\ Len(nz.trace) < MaxPasses
    /\ nz' = [nz EXCEPT !.obj = NormalizeResultObject(nz.obj),
                        !.trace = Append(nz.trace, "result"),
                        !.outs = Append(nz.outs, NormalizeResultObject(nz.obj))]
    /\ UNCHANGED <<gm, apiVars, pl, rd, gr, fb, storeVars>>

(* payload_dict = _normalize_payload(payload_dict) (api.py 172) *)
NzPayload ==
    /\ nz.pc = "loaded"
    /\ Len(nz.trace) < MaxPasses
    /\ nz' = [nz EXCEPT !.obj = NormalizePayloadObject(nz.obj),
                        !.trace = Append(nz.trace, "payload"),
                        !.outs = Append(nz.outs, NormalizePayloadObject(nz.obj))]
    /\ UNCHANGED <<gm, apiVars, pl, rd, gr, fb, storeVars>>

NextNormalize ==
    \/ \E obj \in Objects : NzLoad(obj)
    \/ NzResult
    \/ NzPayload

SpecNormalize == Init /\ [][NextNormalize]_vars

(* ---------------- _get_model under build_chain (quiz_generator.py) ----- *)
(* quiz_generator.py 83-88 *)
MODEL_CANDIDATES ==
    <<"models/gemini-2.5-flash", "models/gemini-2.5-pro",
      "models/gemini-flash-latest", "models/gemini-pro-latest">>

(* settings.GEMINI_MODEL (config.py 26): the default, unset (""), or one   *)
(* of the candidates                                                       *)
PrimaryChoices ==
    {"", "gemini-1.5-flash-8b", "models/gemini-2.5-flash", "models/gemini-2.5-pro",
     "models/gemini-pro-latest"}

(* the messages of the RuntimeErrors of quiz_generator.py 92 and 105 *)
KeyNotSet == "GEMINI_API_KEY is not set"
UnableToInitialize == "Unable to initialize any Gemini model"

SelectionOrder_NoFilter(primary) ==
    (IF primary # "" THEN <<primary>> ELSE <<>>) \o MODEL_CANDIDATES

(* quiz_generator.py 93-95: preferred + [c for c in MODEL_CANDIDATES if c  *)
(* not in preferred]                                                       *)
SelectionOrder(primary) ==
    LET preferred == IF primary # "" THEN <<primary>> ELSE <<>>
    IN preferred \o SelectSeq(MODEL_CANDIDATES, LAMBDA c : c \notin Range(preferred))

(* build_chain raised: tenacity (144) calls it again until BUILD_ATTEMPTS  *)
(* calls were made, then raises RetryError around the last exception       *)
BuildChainRaised(cause) ==
    IF gm.attempt < BUILD_ATTEMPTS
    THEN [gm EXCEPT !.pc = "get_model", !.attempt = @ + 1, !.cause = cause]
    ELSE [gm EXCEPT !.pc = "failed", !.err = "RetryError", !.cause = cause]

(* generate_quiz_payload calls build_chain (216) *)
GmBuildChain(primary, has_key) ==
    /\ gm.pc = "idle"
    /\ gm' = [IdleSelection EXCEPT !.pc = "get_model", !.primary = primary,
                                   !.has_key = has_key, !.attempt = 1]
    /\ UNCHANGED <<apiVars, pl, rd, gr, fb, nz, storeVars>>

(* quiz_generator.py 90-95: _get_model is entered *)
GmEnter ==
    /\ gm.pc = "get_model"
    /\ gm' = IF ~gm.has_key
             THEN [BuildChainRaised(KeyNotSet) EXCEPT !.order = <<>>, !.tried = <<>>,
                                                      !.i = 0]
             ELSE [gm EXCEPT !.pc = "try", !.order = SelectionOrder(gm.primary),
                             !.i = 1, !.tried = <<>>]
    /\ UNCHANGED <<apiVars, pl, rd, gr, fb, nz, storeVars>>

(* quiz_generator.py 95-104: one turn of the loop; the constructor returns *)
(* a model (ok) or raises                                                  *)
GmInit(ok) ==
    /\ gm.pc = "try"
    /\ gm.i <= Len(gm.order)
    /\ gm' = IF ok THEN [gm EXCEPT !.pc = "built", !.used = gm.order[gm.i]]
             ELSE [gm EXCEPT !.tried = Append(gm.tried, gm.order[gm.i]), !.i = @ + 1]
    /\ UNCHANGED <<apiVars, pl, rd, gr, fb, nz, storeVars>>

(* quiz_generator.py 105: every identifier raised *)
GmExhausted ==
    /\ gm.pc = "try"
    /\ gm.i > Len(gm.order)
    /\ gm' = BuildChainRaised(UnableToInitialize)
    /\ UNCHANGED <<apiVars, pl, rd, gr, fb, nz, storeVars>>

NextSelection ==
    \/ \E primary \in PrimaryChoices, has_key \in BOOLEAN : GmBuildChain(primary, has_key)
    \/ GmEnter
    \/ \E ok \in BOOLEAN : GmInit(ok)
    \/ GmExhausted

SpecSelection == Init /\ [][NextSelection]_vars

(* ---------------- _InMemoryStore (cache/storage.py) -------------------- *)
(* the set holding an expiry time, empty for None *)
NoExpiry == {}

Expired(exp, t) == \E e \in exp : e < t

(* storage.py 29, 49: (time.time() + ttl_seconds) if ttl_seconds else ... *)
ExpiryFor(ttl_seconds, t, otherwise) == IF ttl_seconds # 0 THEN {t + ttl_seconds} ELSE otherwise

(* dict.pop(key, None) *)
Pop(d, keys) == [k \in DOMAIN d \ keys |-> d[k]]

(* d[key] = v *)
SetItem(d, key, v) == [k \in DOMAIN d \cup {key} |-> IF k = key THEN v ELSE d[k]]

(* a lock that any thread may enter at any time *)
LockFree_Always(lock) == TRUE

(* storage.py 25: `with self._lock` is entered when no other thread is in *)
(* a with-block of the same lock                                          *)
LockFree(lock) == lock = 0

CreatesBegun == Len(store.issued) + Cardinality({t \in Threads : thr[t].pc # "idle"})

(* a thread calls create(value, ttl_seconds) and waits at line 25 *)
CreateCall(t, value, ttl_seconds) ==
    /\ thr[t].pc = "idle"
    /\ CreatesBegun < MaxCreates
    /\ thr' = [thr EXCEPT ![t] = [@ EXCEPT !.pc = "line25", !.value = value,
                                  !.ttl = ttl_seconds]]
    /\ UNCHANGED <<gm, nz, fb, apiVars, pl, rd, gr, store, sret, now>>

(* storage.py 25: the lock is taken *)
CreateEnter(t) ==
    /\ thr[t].pc = "line25"
    /\ LockFree(store._lock)
    /\ store' = [store EXCEPT !._lock = t]
    /\ thr' = [thr EXCEPT ![t] = [@ EXCEPT !.pc = "line26"]]
    /\ UNCHANGED <<gm, nz, fb, apiVars, pl, rd, gr, sret, now>>

(* storage.py 26: _id = self._next_id *)
CreateReadId(t) ==
    /\ thr[t].pc = "line26"
    /\ thr' = [thr EXCEPT ![t] = [@ EXCEPT !.pc = "line27", !._id = store._next_id]]
    /\ UNCHANGED <<gm, nz, fb, apiVars, pl, rd, gr, store, sret, now>>

(* storage.py 27: self._next_id += 1 *)
CreateBumpId(t) ==
    /\ thr[t].pc = "line27"
    /\ store' = [store EXCEPT !._next_id = @ + 1]
    /\ thr' = [thr EXCEPT ![t] = [@ EXCEPT !.pc = "line28"]]
    /\ UNCHANGED <<gm, nz, fb, apiVars, pl, rd, gr, sret, now>>

(* storage.py 28-30: the record and its expiry are stored, the lock is    *)
(* left and the id returned                                               *)
CreateStore(t) ==
    /\ thr[t].pc = "line28"
    /\ store' = [store EXCEPT
                    !._data = SetItem(@, thr[t]._id, thr[t].value),
                    !._expiry = SetItem(@, thr[t]._id,
                                        ExpiryFor(thr[t].ttl, now, NoExpiry)),
                    !._lock = 0,
                    !.issued = Append(@, thr[t]._id)]
    /\ sret' = [NoReturn EXCEPT !.op = "create", !.id = thr[t]._id]
    /\ thr' = [thr EXCEPT ![t] = IdleThread]
    /\ UNCHANGED <<gm, nz, fb, apiVars, pl, rd, gr, now>>

StoreIds == 1..MaxCreates

(* storage.py 32-42: get, which purges the record when it has expired *)
StoreGet(_id) ==
    /\ LockFree(store._lock)
    /\ IF _id \notin DOMAIN store._data
       THEN /\ sret' = [NoReturn EXCEPT !.op = "get", !.id = _id]
            /\ UNCHANGED store
       ELSE IF Expired(store._expiry[_id], now)
       THEN /\ store' = [store EXCEPT !._data = Pop(@, {_id}), !._expiry = Pop(@, {_id})]
            /\ sret' = [NoReturn EXCEPT !.op = "get", !.id = _id]
       ELSE /\ sret' = [NoReturn EXCEPT !.op = "get", !.id = _id, !.found = TRUE,
                                        !.value = store._data[_id]]
            /\ UNCHANGED store
    /\ UNCHANGED <<gm, nz, fb, apiVars, pl, rd, gr, thr, now>>

(* storage.py 44-50: put *)
StorePut(_id, value, ttl_seconds) ==
    /\ LockFree(store._lock)
    /\ IF _id \notin DOMAIN store._data
       THEN /\ sret' = [NoReturn EXCEPT !.op = "put", !.id = _id]
            /\ UNCHANGED store
       ELSE /\ store' = [store EXCEPT
                            !._data = SetItem(@, _id, value),
                            !._expiry = SetItem(@, _id,
                                ExpiryFor(ttl_seconds, now, store._expiry[_id]))]
            /\ sret' = [NoReturn EXCEPT !.op = "put", !.id = _id, !.found = TRUE]
    /\ UNCHANGED <<gm, nz, fb, apiVars, pl, rd, gr, thr, now>>

(* storage.py 52-57: delete *)
StoreDelete(_id) ==
    /\ LockFree(store._lock)
    /\ store' = [store EXCEPT !._data = Pop(@, {_id}), !._expiry = Pop(@, {_id})]
    /\ sret' = [NoReturn EXCEPT !.op = "delete", !.id = _id,
                                !.found = (_id \in DOMAIN store._data)]
    /\ UNCHANGED <<gm, nz, fb, apiVars, pl, rd, gr, thr, now>>

(* the elements of the set S of integers, largest first *)
RECURSIVE SortedDesc(_)
SortedDesc(S) ==
    IF S = {} THEN <<>>
    ELSE LET m == CHOOSE x \in S : \A y \in S : y <= x
         IN <<m>> \o SortedDesc(S \ {m})

(* storage.py 59-67: list_ids drops the expired records first *)
StoreListIds ==
    /\ LockFree(store._lock)
    /\ LET dead == {i \in DOMAIN store._expiry : Expired(store._expiry[i], now)} IN
       /\ store' = [store EXCEPT !._data = Pop(@, dead), !._expiry = Pop(@, dead)]
       /\ sret' = [NoReturn EXCEPT !.op = "list_ids", !.ids = SortedDesc(DOMAIN store'._data)]
    /\ UNCHANGED <<gm, nz, fb, apiVars, pl, rd, gr, thr, now>>

(* time passes *)
Tick ==
    /\ now < MaxNow
    /\ now' = now + 1
    /\ UNCHANGED <<gm, nz, fb, apiVars, pl, rd, gr, store, thr, sret>>

NextStore ==
    \/ \E t \in Threads, value \in Values, ttl_seconds \in TTLs : CreateCall(t, value, ttl_seconds)
    \/ \E t \in Threads : CreateEnter(t)
    \/ \E t \in Threads : CreateReadId(t)
    \/ \E t \in Threads : CreateBumpId(t)
    \/ \E t \in Threads : CreateStore(t)
    \/ \E _id \in StoreIds : StoreGet(_id)
    \/ \E _id \in StoreIds, value \in Values, ttl_seconds \in TTLs : StorePut(_id, value, ttl_seconds)
    \/ \E _id \in StoreIds : StoreDelete(_id)
    \/ StoreListIds
    \/ Tick

SpecStore == Init /\ [][NextStore]_vars

TypeOK ==
    /\ llm_sem \in 0..LLM_CONCURRENCY
    /\ \A s \in Slots : req[s].pc \in {"idle", "fetch", "lookup", "gate", "model_call",
                                       "normalize", "create", "done"}

(* ====================================================================== *)
(* Properties                                                             *)
(* ====================================================================== *)

(* the rows that were generated from this URL and this article text *)
RowsFor(url, text) ==
    {i \in DOMAIN quizzes : quizzes[i].url = url /\ quizzes[i].scraped_content = text}

LeavesLookup(s) == req[s].pc = "lookup" /\ req'[s].pc # "lookup"

(* C1: once a force=false call was answered with record id i for a URL    *)
(* and article text, a later force=false call for the same URL and text   *)
(* is answered by the dedup lookup with the same id i: it makes no model   *)
(* call and creates no record. (The only other answer the lookup can give *)
(* is its error when several records carry the pair, which needs a forced  *)
(* or concurrent call besides the two.)                                   *)
C1_SecondCallServedFromRecord ==
    [][\A s \in Slots : LeavesLookup(s) =>
         \A i \in served :
            (i \in Ids(quizzes)
             /\ RowOfId(i).url = req[s].url
             /\ RowOfId(i).scraped_content = req[s].text)
            => /\ req'[s].pc = "done"
               /\ quizzes' = quizzes
               /\ llm_sem' = llm_sem
               /\ \/ req'[s].status = 201 /\ req'[s].id = i
                  \/ /\ Cardinality(RowsFor(req[s].url, req[s].text)) > 1
                     /\ req'[s].status = 500
               /\ Cardinality(RowsFor(req[s].url, req[s].text)) = 1
                    => req'[s].status = 201 /\ req'[s].id = i]_vars

(* a force=false call has just been answered from the lookup with an id   *)
(* that an earlier force=false call had created and returned              *)
C1_Witness ==
    \E s, t \in Slots :
        /\ s # t
        /\ req[s].pc = "done" /\ req[s].via = "hit" /\ req[s].status = 201
        /\ req[t].pc = "done" /\ req[t].via = "created" /\ ~req[t].force
        /\ req[t].id = req[s].id
        /\ req[s].id \in served

(* C2: a force=true call never consults the dedup lookup; when it is      *)
(* answered with a record, that record was created by this call after a    *)
(* generation, and its id is new: no row had it before.                    *)
C2_ForceBypassesLookup ==
    /\ [](\A s \in Slots : req[s].force =>
             /\ req[s].pc # "lookup"
             /\ req[s].via \notin {"hit", "lookup"}
             /\ (req[s].pc = "done" /\ req[s].status = 201) => req[s].via = "created")
    /\ [][\A s \in Slots :
             (req[s].force /\ req[s].pc # "done" /\ req'[s].pc = "done"
                /\ req'[s].status = 201)
             => /\ req[s].pc = "create"
                /\ req'[s].id \notin Ids(quizzes)
                /\ Len(quizzes') = Len(quizzes) + 1
                /\ quizzes'[Len(quizzes')].id = req'[s].id
                /\ SubSeq(quizzes', 1, Len(quizzes)) = quizzes]_vars

(* a forced call was answered with a new record although an older record  *)
(* with the same URL and article text exists                              *)
C2_Witness ==
    \E s \in Slots :
        /\ req[s].pc = "done" /\ req[s].force /\ req[s].status = 201
        /\ req[s].id \in Ids(quizzes)
        /\ \E i \in DOMAIN quizzes :
              /\ quizzes[i].id < req[s].id
              /\ quizzes[i].url = RowOfId(req[s].id).url
              /\ quizzes[i].scraped_content = RowOfId(req[s].id).scraped_content

(* C3: the dedup lookup answers with a record only if that record's       *)
(* url_hash and content_hash both equal the request's fingerprints; and   *)
(* when no stored record has both the request's URL and its article text, *)
(* the lookup misses and the call goes on to generation.                  *)
C3_LookupMatchesBothFingerprints ==
    [][\A s \in Slots : LeavesLookup(s) =>
         /\ (req'[s].pc = "done" /\ req'[s].status = 201)
              => /\ req'[s].id \in Ids(quizzes)
                 /\ RowOfId(req'[s].id).url_hash = sha256_hex(req[s].url)
                 /\ RowOfId(req'[s].id).content_hash = sha256_hex(req[s].text)
         /\ RowsFor(req[s].url, req[s].text) = {}
              => req'[s].pc = "gate"]_vars

(* a call missed although the table holds a record for the same URL with  *)
(* another text, and one for the same text under another URL              *)
C3_Witness ==
    \E s \in Slots :
        /\ req[s].pc = "gate" /\ ~req[s].force
        /\ \E i \in DOMAIN quizzes :
              quizzes[i].url = req[s].url /\ quizzes[i].scraped_content # req[s].text
        /\ \E i \in DOMAIN quizzes :
              quizzes[i].url # req[s].url /\ quizzes[i].scraped_content = req[s].text

(* C4: when no request sets force, the table holds at most one record per *)
(* (url_hash, content_hash) pair.                                         *)
C4_OneRecordPerPair ==
    \A i, j \in DOMAIN quizzes :
        (quizzes[i].url_hash = quizzes[j].url_hash
         /\ quizzes[i].content_hash = quizzes[j].content_hash) => i = j

InModelCall == {s \in Slots : req[s].pc = "model_call"}

(* C7: at most LLM_CONCURRENCY (one) request is inside the model call.    *)
C7_AtMostOneModelCall == Cardinality(InModelCall) <= LLM_CONCURRENCY

(* one request is inside the model call while another waits at the gate *)
C7_Witness ==
    \E s, t \in Slots : req[s].pc = "model_call" /\ req[t].pc = "gate" /\ llm_sem = 0

(* C8: a request holds the gate exactly while it is inside the model call *)
(* (the generate_quiz_payload call): not while it fetches, looks up,      *)
(* normalizes or persists, and not once it has been answered; every       *)
(* permit that no running model call holds is free again, also after a     *)
(* model call that failed.                                                *)
C8_GateHeldOnlyInModelCall ==
    /\ \A s \in Slots : req[s].holds <=> req[s].pc = "model_call"
    /\ llm_sem = LLM_CONCURRENCY - Cardinality(InModelCall)

(* a model call has failed, the request is answered, the gate is free and *)
(* another request is in its normalization step                           *)
C8_Witness ==
    \E s, t \in Slots :
        /\ req[s].pc = "done" /\ req[s].via = "generation"
        /\ req[t].pc = "normalize"
        /\ llm_sem = LLM_CONCURRENCY

(* C9: the repair is attempted at most once and generate_quiz_payload     *)
(* never invokes the model more than twice; a repair whose output is      *)
(* rejected ends the pipeline in failure, with no further invocation.     *)
C9_RepairAtMostOnce ==
    /\ [](pl.repairs <= 1 /\ pl.invocations <= 2)
    /\ [][pl.pc = "repair" =>
            /\ pl'.pc \in {"normalize", "failed"}
            /\ pl'.pc = "normalize" => QuizOutputModelValid(pl'.obj)]_vars
    /\ [][pl.pc = "failed" => pl' = pl]_vars

(* a repair was made, its output was rejected too, and the pipeline       *)
(* failed after two invocations                                           *)
C9_Witness ==
    /\ pl.variant = "app" /\ pl.pc = "failed" /\ pl.err = "ValidationError"
    /\ pl.repairs = 1 /\ pl.invocations = 2

(* the first output of the model did not pass the schema validation of    *)
(* the pipeline                                                           *)
FirstOutputRejected ==
    /\ pl.first # NoOutput
    /\ ~QuizOutputModelValid(IF InvokeValidates(pl.variant) THEN pl.first
                             ELSE _normalize_result(pl.first))

(* C10: when the first model output fails schema validation, the pipeline *)
(* goes on to the repair and invokes the model once more with the         *)
(* validation error text.                                                 *)
C10_RepairAfterFirstRejection ==
    (pl.pc \in {"returned", "failed"} /\ FirstOutputRejected)
        => (pl.repairs = 1 /\ pl.error_text = ValidationErrorText(pl.first))

(* C5: the ids returned by _InMemoryStore.create are strictly increasing  *)
(* in the order of the returns, whatever the interleaving of the threads, *)
(* so no two creates get the same id and the id of a deleted or expired   *)
(* record is never handed out again.                                      *)
C5_StoreIdsStrictlyIncreasing ==
    /\ \A i, j \in DOMAIN store.issued :
          i < j => store.issued[i] < store.issued[j]
    /\ \A k \in DOMAIN store._data : k < store._next_id
    /\ \A t \in Threads : thr[t].pc \in {"line27", "line28"} =>
          \A i \in DOMAIN store.issued : store.issued[i] < thr[t]._id

(* the first record is gone (deleted or expired), one thread is inside    *)
(* create with a later id and another thread waits for the lock           *)
C5_Witness ==
    /\ Len(store.issued) >= 1
    /\ store.issued[1] \notin DOMAIN store._data
    /\ \E t, u \in Threads :
          /\ thr[t].pc = "line28" /\ thr[t]._id > store.issued[1]
          /\ thr[u].pc = "line25"

(* C6: no operation of the API changes or removes a row once it is in the *)
(* table, and get_quiz answers with the payload the row was created with. *)
C6_RowsImmutable ==
    /\ [][\A i \in DOMAIN quizzes :
            i \in DOMAIN quizzes' /\ quizzes'[i] = quizzes[i]]_vars
    /\ []((rd.op = "get_quiz" /\ rd.status = 200) =>
            /\ rd.id \in Ids(quizzes)
            /\ rd.full_quiz_data = RowOfId(rd.id).full_quiz_data)
    /\ []((rd.op = "grade" /\ rd.status = 200) =>
            /\ rd.id \in Ids(quizzes)
            /\ rd.total = RowOfId(rd.id).full_quiz_data.n)

(* the first row is read back after a second row with another payload was *)
(* created for the same URL                                               *)
C6_Witness ==
    /\ Len(quizzes) = 2
    /\ quizzes[1].url = quizzes[2].url
    /\ quizzes[1].full_quiz_data # quizzes[2].full_quiz_data
    /\ rd.op = "get_quiz" /\ rd.status = 200 /\ rd.id = quizzes[1].id
    /\ rd.full_quiz_data = quizzes[1].full_quiz_data

(* C11: when chain.invoke signals a rate limit, generate_quiz_payload     *)
(* fails at once with RateLimitError carrying the retry-after seconds the *)
(* provider supplied, and no second invocation is made.                   *)
C11_RateLimitFailsWithRateLimitError ==
    (pl.pc = "failed" /\ pl.signal = "ResourceExhausted")
        => /\ pl.err = "RateLimitError"
           /\ pl.retry_after = pl.hint
           /\ pl.invocations = 1 /\ pl.repairs = 0

(* what the final gate asks of a payload, spelled out *)
FitsQuizPayloadSchema(p) ==
    /\ p.shape = "ok"
    /\ p.options = 4
    /\ p.difficulty \in {"easy", "medium", "hard"}
    /\ p.n \in QUIZ_MIN_LEN..QUIZ_MAX_LEN

(* C12: every stored payload fits the QuizPayload schema (required        *)
(* fields, 4 options per item, difficulty a level, 5..10 items), and a    *)
(* normalized payload that does not fit is answered 502 with no row       *)
(* written.                                                               *)
C12_StoredPayloadsPassedFinalGate ==
    /\ [](\A i \in DOMAIN quizzes : FitsQuizPayloadSchema(quizzes[i].full_quiz_data))
    /\ [][\A s \in Slots :
            (req[s].pc = "normalize" /\ req'[s] # req[s]
             /\ ~FitsQuizPayloadSchema(_normalize_payload(req[s].raw)))
            => /\ req'[s].pc = "done" /\ req'[s].status = 502
               /\ quizzes' = quizzes]_vars

(* one request was refused at the final gate after another one's payload  *)
(* was stored                                                             *)
C12_Witness ==
    /\ Len(quizzes) >= 1
    /\ \E s \in Slots :
          req[s].pc = "done" /\ req[s].via = "validation" /\ req[s].status = 502

(* C13: the payload of every successful generate_quiz request has between *)
(* min_questions and max_questions items, the bounds of that request with *)
(* the defaults applied.                                                  *)
C13_QuizLengthWithinRequestBounds ==
    [][\A s \in Slots :
         (req[s].pc # "done" /\ req'[s].pc = "done" /\ req'[s].status = 201)
         => \A i \in DOMAIN quizzes' :
               quizzes'[i].id = req'[s].id =>
                  /\ quizzes'[i].full_quiz_data.n >= EffectiveMin(req[s].min_questions)
                  /\ quizzes'[i].full_quiz_data.n
                        <= EffectiveMax(req[s].min_questions, req[s].max_questions)]_vars

(* C14: no request whose article body is shorter than 200 characters      *)
(* reaches the model call, and no row is created from such a body.        *)
C14_ShortBodyRejected ==
    /\ \A s \in Slots :
          req[s].pc \in {"model_call", "normalize", "create"}
             => BodyLen(req[s].text) >= MIN_BODY_LEN
    /\ \A i \in DOMAIN quizzes : BodyLen(quizzes[i].scraped_content) >= MIN_BODY_LEN

(* C15: a request whose URL is outside the allowed pattern is answered    *)
(* with a 4xx status.                                                     *)
C15_InvalidSourceIsClientError ==
    [][\A s \in Slots :
         (req[s].pc = "fetch" /\ req[s].url \notin WIKI_ALLOWED /\ req'[s].pc = "done")
         => (req'[s].status >= 400 /\ req'[s].status <= 499)]_vars

(* C16: a request that fails in the model call (model selection           *)
(* included), in the normalization or at the final gate is answered 502   *)
(* and writes no row.                                                     *)
C16_GenerationFailureIs502 ==
    /\ [][\A s \in Slots :
            (req[s].pc \in {"model_call", "normalize"} /\ req'[s].pc = "done")
            => (req'[s].status = 502 /\ req'[s].id = 0 /\ quizzes' = quizzes)]_vars
    /\ [](\A s \in Slots :
            (req[s].pc = "done" /\ req[s].via \in {"generation", "validation"})
            => req[s].status = 502)

(* both kinds of generation failure have been answered and the table is   *)
(* still empty                                                            *)
C16_Witness ==
    /\ quizzes = <<>>
    /\ \E s, t \in Slots :
          /\ req[s].pc = "done" /\ req[s].via = "generation" /\ req[s].status = 502
          /\ req[t].pc = "done" /\ req[t].via = "validation" /\ req[t].status = 502

(* C17: a request that is answered 500 from the create step leaves no row *)
(* of its own behind.                                                     *)
C17_FailedCreateLeavesNoRow ==
    [][\A s \in Slots :
         (req[s].pc = "create" /\ req'[s].pc = "done" /\ req'[s].status = 500)
         => quizzes' = quizzes]_vars

(* C18: grading a stored record (5..10 items) with an answers list of     *)
(* another length ends with 400 and returns no result, total or score.    *)
C18_CountMismatchIs400 ==
    (gr.pc # "idle" /\ StoredPayloadValid(gr.quiz) /\ Len(gr.answers) # Len(gr.quiz))
        => /\ gr.pc = "done" /\ gr.status = 400
           /\ gr.results = <<>> /\ gr.total = 0 /\ gr.correct = 0 /\ gr.score = 0

(* a six-item quiz was submitted five answers and refused *)
C18_Witness ==
    /\ gr.pc = "done" /\ gr.status = 400
    /\ Len(gr.quiz) = 6 /\ Len(gr.answers) = 5

(* the options of q that equal its answer, exactly and up to case and     *)
(* surrounding whitespace, by 0-based index                               *)
ExactMatches(q) == {i - 1 : i \in {k \in DOMAIN q.options : q.options[k] = q.answer}}
LooseMatches(q) ==
    {i - 1 : i \in {k \in DOMAIN q.options : Lowered(q.options[k]) = Lowered(q.answer)}}
LeastOf(S) == CHOOSE m \in S : \A x \in S : m <= x
ExpectedIndex(q) ==
    IF ExactMatches(q) # {} THEN LeastOf(ExactMatches(q))
    ELSE IF LooseMatches(q) # {} THEN LeastOf(LooseMatches(q))
    ELSE -1

(* C19: each result carries as correct index the first exact match, else  *)
(* the first match up to case and whitespace, else -1, and is scored      *)
(* correct exactly when the submitted index equals a correct index other  *)
(* than -1.                                                               *)
C19_CorrectIndexAndScoring ==
    \A k \in DOMAIN gr.results :
        LET r == gr.results[k]
            q == gr.quiz[k]
        IN /\ r.correct = ExpectedIndex(q)
           /\ r.chosen = gr.answers[k]
           /\ r.is_correct <=> (r.chosen = ExpectedIndex(q) /\ ExpectedIndex(q) # -1)
           /\ ExpectedIndex(q) = -1 => ~r.is_correct

(* a finished grade with an item that matches no option and was submitted *)
(* -1, an item matched only up to case and whitespace and scored correct, *)
(* and an item whose exact match comes after a loose one                  *)
C19_Witness ==
    /\ gr.pc = "done" /\ gr.status = 200
    /\ \E k \in DOMAIN gr.results :
          gr.results[k].correct = -1 /\ gr.results[k].chosen = -1
          /\ ~gr.results[k].is_correct
    /\ \E k \in DOMAIN gr.results :
          gr.quiz[k] = ItemLooseOnly /\ gr.results[k].correct = 1
          /\ gr.results[k].is_correct
    /\ \E k \in DOMAIN gr.results :
          gr.quiz[k] = ItemExactAfterLoose /\ gr.results[k].correct = 2

(* C20: a submission of matching length gets 200 with total the stored    *)
(* quiz length, one result per item in order, correct the number of       *)
(* results scored correct and score the nearest hundredth to              *)
(* correct/total*100 within 0..100; for a record with no questions the    *)
(* score is 0.                                                            *)
C20_GradeTotals ==
    (gr.pc = "done" /\ Len(gr.answers) = Len(gr.quiz))
        => /\ gr.status = 200
           /\ gr.total = Len(gr.quiz)
           /\ Len(gr.results) = gr.total
           /\ \A k \in DOMAIN gr.results : gr.results[k].index = k - 1
           /\ gr.correct = Cardinality({k \in DOMAIN gr.results : gr.results[k].is_correct})
           /\ gr.correct >= 0 /\ gr.correct <= gr.total
           /\ gr.score >= 0 /\ gr.score <= 10000
           /\ gr.total # 0 =>
                 /\ 2 * (gr.score * gr.total - gr.correct * 10000) <= gr.total
                 /\ 2 * (gr.correct * 10000 - gr.score * gr.total) <= gr.total
           /\ gr.total = 0 => gr.score = 0

(* C21: reading or grading an id that no stored record has answers 404    *)
(* with a detail that says "not found"; for grade this holds whatever the *)
(* number of submitted answers, the id being looked up before the count   *)
(* is compared.                                                           *)
C21_UnknownIdIs404 ==
    [][\A quiz_id \in QuizIds :
          quiz_id \notin Ids(quizzes) =>
             /\ GetQuiz(quiz_id) =>
                   (rd'.status = 404 /\ MentionsNotFound(rd'.detail))
             /\ \A n_answers \in QuizLens :
                   GradeQuiz(quiz_id, n_answers) =>
                      /\ rd'.status = 404 /\ MentionsNotFound(rd'.detail)
                      /\ rd'.total = 0 /\ rd'.id = 0]_vars

(* a grade answered 404 while the table holds records *)
C21_Witness ==
    /\ rd.op = "grade" /\ rd.status = 404 /\ MentionsNotFound(rd.detail)
    /\ quizzes # <<>>

(* C22: for an article body of at least 200 characters and min_questions  *)
(* <= max_questions the returned quiz has between min_questions and       *)
(* max_questions items, each with exactly 4 pairwise distinct options and *)
(* a difficulty of easy, medium or hard.                                  *)
C22_FallbackQuizWellFormed ==
    (fb.pc = "done" /\ fb.body_chars >= MIN_BODY_LEN
        /\ fb.min_questions <= fb.max_questions)
        => /\ Len(fb.quiz_items) >= fb.min_questions
           /\ Len(fb.quiz_items) <= fb.max_questions
           /\ \A k \in DOMAIN fb.quiz_items :
                 /\ Len(fb.quiz_items[k].options) = 4
                 /\ Cardinality(Range(fb.quiz_items[k].options)) = 4
                 /\ fb.quiz_items[k].difficulty \in DifficultyLevels

(* C23: generate_rule_based_quiz returns at least one question whatever   *)
(* the body, the title and the values of min_questions and max_questions. *)
C23_FallbackNeverEmpty ==
    fb.pc = "done" => Len(fb.quiz_items) >= 1

(* an empty body and an empty title with bounds that ask for nothing end  *)
(* in the single generic question                                         *)
C23_Witness ==
    /\ fb.pc = "done" /\ fb.body_chars = 0 /\ fb.clean_title = "Untitled Article"
    /\ fb.max_questions <= 0
    /\ Len(fb.quiz_items) = 1 /\ fb.quiz_items[1].difficulty = "easy"

(* the id of the record with exactly rank - 1 larger ids in the table *)
IdAtRank(db, rank) ==
    CHOOSE id \in Ids(db) : Cardinality({x \in Ids(db) : x > id}) = rank - 1

(* C24: history(page, page_size) raises page to at least 1 and clamps     *)
(* page_size into 1..MAX_PAGE_SIZE, then returns the records at ranks     *)
(* (page-1)*page_size+1 .. page*page_size by descending id, with total    *)
(* the number of all stored records; the most recently created record is  *)
(* on page 1.                                                             *)
C24_HistoryPage ==
    [][\A page \in Pages, page_size \in PageSizes :
          (rd'.op = "history" /\ History(page, page_size)) =>
            LET pg == IF page < 1 THEN 1 ELSE page
                ps == IF page_size < 1 THEN 1
                      ELSE IF page_size > MAX_PAGE_SIZE THEN MAX_PAGE_SIZE
                      ELSE page_size
                first == (pg - 1) * ps + 1
                last == IF pg * ps < Len(quizzes) THEN pg * ps ELSE Len(quizzes)
            IN /\ rd'.status = 200
               /\ rd'.limit = ps /\ rd'.limit \in 1..MAX_PAGE_SIZE
               /\ rd'.skip = (pg - 1) * ps
               /\ rd'.total = Len(quizzes)
               /\ Len(rd'.items) = (IF last >= first THEN last - first + 1 ELSE 0)
               /\ \A k \in DOMAIN rd'.items :
                     rd'.items[k] = IdAtRank(quizzes, first + k - 1)
               /\ (pg = 1 /\ quizzes # <<>>) =>
                     rd'.items[1] = quizzes[Len(quizzes)].id]_vars

(* the second page of size one of a table of two records holds the older  *)
(* record                                                                 *)
C24_Witness ==
    /\ rd.op = "history" /\ rd.skip = 1 /\ rd.limit = 1
    /\ Len(quizzes) = 2 /\ rd.total = 2
    /\ rd.items = <<quizzes[1].id>>

(* what the claim says a normalized object is, given the object it was    *)
(* made from                                                              *)
NormalizedAsClaimed(in, out) ==
    /\ (in.key_entities.kind = "dict" /\ ~(Categories \subseteq Range(KeysOf(in.key_entities))))
          => out.key_entities = PeopleOnly(KeysOf(in.key_entities))
    /\ in.key_entities.kind = "absent" => out.key_entities = PeopleOnly(<<>>)
    /\ (in.key_entities.kind = "dict" /\ Categories \subseteq Range(KeysOf(in.key_entities)))
          => out.key_entities = in.key_entities
    /\ in.sections = {} => out.sections = {<<>>}
    /\ in.sections # {} => out.sections = in.sections
    /\ in.related_topics = {} => out.related_topics = {<<>>}
    /\ in.related_topics # {} => out.related_topics = in.related_topics
    /\ out.title = in.title
    /\ (in.quiz = {}) <=> (out.quiz = {})
    /\ \A a \in in.quiz : \A b \in out.quiz :
          /\ Len(a) = Len(b)
          /\ \A k \in DOMAIN a :
                /\ b[k].question = a[k].question
                /\ b[k].difficulty.type = a[k].difficulty.type
                /\ a[k].difficulty.type = "str" =>
                      /\ b[k].difficulty.text = StripLower(a[k].difficulty.text)
                      /\ b[k].difficulty.text # " Easy "
                /\ a[k].difficulty.type # "str" => b[k].difficulty = a[k].difficulty

(* C25: the normalization pass turns a key_entities mapping that lacks a  *)
(* category into {people: its keys, organizations: [], locations: []},    *)
(* an absent key_entities into three empty lists, trims and lowercases    *)
(* every string difficulty, defaults absent sections and related_topics   *)
(* to empty lists, and leaves a complete key_entities and every other     *)
(* field as they were; so does _normalize_payload run after it.           *)
C25_NormalizationMapping ==
    /\ (nz.trace # <<>> /\ nz.trace[1] = "result")
          => NormalizedAsClaimed(nz.input, nz.outs[1])
    /\ (nz.trace = <<"result", "payload">> /\ nz.input.key_entities.kind # "list")
          => NormalizedAsClaimed(nz.input, nz.outs[2])

(* a flat mapping, a padded upper-case difficulty and no sections went    *)
(* through _normalize_result                                              *)
C25_Witness ==
    /\ nz.trace = <<"result">>
    /\ nz.input.key_entities = KeFlat
    /\ nz.outs[1].key_entities = PeopleOnly(<<"Alan Turing", "Enigma">>)
    /\ nz.input.sections = {} /\ nz.outs[1].sections = {<<>>}
    /\ \E a \in nz.input.quiz : \E b \in nz.outs[1].quiz :
          /\ Len(a) >= 1 /\ Len(b) >= 1
          /\ a[1].difficulty.text = " Easy " /\ b[1].difficulty.text = "easy"

(* C26: on every object a second normalization pass changes nothing:      *)
(* _normalize_result after _normalize_result, _normalize_payload after    *)
(* _normalize_payload, and _normalize_payload after _normalize_result     *)
(* each give what the first pass gave.                                    *)
C26_NormalizationIdempotent ==
    (Len(nz.trace) = 2 /\ nz.trace \in {<<"result", "result">>, <<"payload", "payload">>,
                                        <<"result", "payload">>})
        => nz.outs[2] = nz.outs[1]

(* the identifiers a run of _get_model has asked for so far *)
Asked == IF gm.pc = "built" THEN Append(gm.tried, gm.used) ELSE gm.tried

(* the listed position of an alternate *)
ListedAt(m) == CHOOSE k \in DOMAIN MODEL_CANDIDATES : MODEL_CANDIDATES[k] = m

(* C27: a run of model selection asks for the configured primary first    *)
(* and then for the alternates in their listed order, each at most once;  *)
(* it uses the first identifier that initializes and asks for none after  *)
(* it; when every identifier failed, it ends in the model-unavailable     *)
(* error, with which generation fails.                                    *)
C27_ModelSelectionOrder ==
    /\ \A j, k \in DOMAIN Asked : j # k => Asked[j] # Asked[k]
    /\ (gm.primary # "" /\ Asked # <<>>) => Asked[1] = gm.primary
    /\ \A j, k \in DOMAIN Asked :
          (j < k /\ Asked[j] # gm.primary /\ Asked[k] # gm.primary)
             => /\ Asked[j] \in Range(MODEL_CANDIDATES)
                /\ Asked[k] \in Range(MODEL_CANDIDATES)
                /\ ListedAt(Asked[j]) < ListedAt(Asked[k])
    /\ \A j \in DOMAIN Asked :
          Asked[j] # gm.primary =>
             \A c \in Range(MODEL_CANDIDATES) :
                (ListedAt(c) < ListedAt(Asked[j]) /\ c # gm.primary) => c \in Range(Asked)
    /\ (Asked # <<>> /\ Asked[1] # gm.primary) => gm.primary = ""
    /\ gm.pc = "built" => (gm.used \notin Range(gm.tried) /\ gm.i = Len(gm.tried) + 1)
    /\ (gm.has_key /\ (gm.pc = "failed" \/ (gm.pc = "get_model" /\ gm.attempt > 1)))
          => /\ gm.cause = UnableToInitialize
             /\ Range(gm.tried) = Range(MODEL_CANDIDATES) \cup ({gm.primary} \ {""})
    /\ (gm.pc = "failed" /\ gm.has_key) => gm.used = ""

(* the primary, itself one of the listed alternates, and the first listed *)
(* alternate failed and the third identifier was taken                    *)
C27_Witness ==
    /\ gm.pc = "built" /\ gm.primary = "models/gemini-2.5-pro"
    /\ gm.tried = <<"models/gemini-2.5-pro", "models/gemini-2.5-flash">>
    /\ gm.used = "models/gemini-flash-latest"

(* C28: build_chain is attempted at most BUILD_ATTEMPTS = 2 times in one  *)
(* run of generate_quiz_payload: after one failed attempt the second      *)
(* either yields the chain, which is then invoked, or fails the run; and  *)
(* once the chain exists no later step, a rejected model output included, *)
(* attempts the construction again.                                       *)
C28_BuildChainAtMostTwice ==
    /\ [](pl.attempts <= BUILD_ATTEMPTS)
    /\ []((pl.pc = "failed" /\ pl.err = "RetryError")
             => (pl.attempts = BUILD_ATTEMPTS /\ pl.invocations = 0))
    /\ [][(pl.pc = "build_chain" /\ pl.attempts = BUILD_ATTEMPTS - 1) =>
            /\ pl'.attempts = BUILD_ATTEMPTS
            /\ \/ pl'.pc = "invoke"
               \/ pl'.pc = "failed" /\ pl'.err = "RetryError"]_vars
    /\ [][pl.pc \notin {"idle", "build_chain"} =>
            (pl'.attempts = pl.attempts /\ pl'.pc # "build_chain")]_vars

(* the first attempt failed, the second built the chain, and the model's  *)
(* output was then rejected: the run failed without a third attempt       *)
C28_Witness ==
    /\ pl.pc = "failed" /\ pl.err = "ValidationError"
    /\ pl.attempts = BUILD_ATTEMPTS /\ pl.invocations >= 1

(* C29: whatever requests came before, forced or concurrent for the same  *)
(* pair of fingerprints, a request without force whose pair is in the     *)
(* table is answered by the lookup with one of the records of that pair,  *)
(* and does not fail.                                                     *)
C29_LookupTotal ==
    [][\A s \in Slots :
          (req[s].pc = "lookup" /\ req'[s].pc # "lookup"
           /\ MatchingRows(quizzes, sha256_hex(req[s].url), sha256_hex(req[s].text)) # {})
          => /\ req'[s].pc = "done" /\ req'[s].status = 201
             /\ \E i \in MatchingRows(quizzes, sha256_hex(req[s].url),
                                      sha256_hex(req[s].text)) :
                   quizzes[i].id = req'[s].id]_vars

(* C30: for every request that GenerateQuizRequest accepts, also one that *)
(* gives only min_questions or only max_questions, the bounds handed to   *)
(* generate_quiz_payload satisfy 1 <= min_questions <= max_questions <=   *)
(* 20.                                                                    *)
C30_EffectiveBoundsOrdered ==
    \A s \in Slots :
        req[s].pc = "model_call" =>
            LET min_questions == EffectiveMin(req[s].min_questions)
                max_questions == EffectiveMax(req[s].min_questions, req[s].max_questions)
            IN /\ 1 <= min_questions
               /\ min_questions <= max_questions
               /\ max_questions <= REQUEST_BOUND_MAX

====
